---------------------------- MODULE Spec2Model ----------------------------
(***************************************************************************)
(* Token-stream analyzers of iresearch (delimited, stemming-only and       *)
(* linguistic) and the process-wide cache of compiled linguistic options.  *)
(*                                                                         *)
(* Sizes and offsets are size_t / uint32_t values.  A number n is kept as  *)
(* the pair <<q, r>> with n = q * 2^32 + r and r small, so that values     *)
(* around 0 and around 2^32 are both exact and the uint32_t wrap-around    *)
(* of the source is computed, not approximated.                            *)
(*                                                                         *)
(* A byte string is [null, pad, tail]: `pad` filler bytes (a byte that is  *)
(* neither the quote nor part of any delimiter) followed by the bytes of   *)
(* `tail`.  The filler prefix makes inputs of about 2^32 bytes            *)
(* representable.                                                          *)
(***************************************************************************)
EXTENDS Integers, Sequences, FiniteSets, Bags, TLC

(***************************************************************************)
(* Bounds of the exploration                                               *)
(***************************************************************************)
MaxLen == 4      \* explicit bytes of the input of the first reset()
MaxReLen == 1    \* explicit bytes of the input of a later reset()
MaxResets == 2   \* reset() calls per analyzer instance
MaxText == 3     \* characters of the text of the first reset()
MaxReText == 0   \* characters of the text of a later reset()
MaxCalls == 3    \* constructions of linguistic analyzers started, over all threads
MaxCacheResets == 1   \* reset() calls on an analyzer obtained through the cache

(***************************************************************************)
(* Numbers: <<q, r>> stands for q * 2^32 + r                               *)
(***************************************************************************)
Num(r) == <<0, r>>
P32(r) == <<1, r>>
Add(a, b) == <<a[1] + b[1], a[2] + b[2]>>
Sub(a, b) == <<a[1] - b[1], a[2] - b[2]>>
Lt(a, b) == a[1] < b[1] \/ (a[1] = b[1] /\ a[2] < b[2])
Le(a, b) == a = b \/ Lt(a, b)
Max(a, b) == IF Lt(a, b) THEN b ELSE a
Min(a, b) == IF Lt(a, b) THEN a ELSE b
\* conversion to uint32_t: the value modulo 2^32
U32(a) == IF a[2] >= 0 THEN <<0, a[2]>> ELSE <<1, a[2]>>
\* irs::integer_traits<uint32_t>::const_max = 2^32 - 1
UINT32_MAX == P32(-1)

(***************************************************************************)
(* Byte strings (irs::bytes_ref / irs::string_ref / irs::bstring)          *)
(***************************************************************************)
QUOTE == "\""
FILL == "x"
Char == {"a", QUOTE, ","}

NIL == [null |-> TRUE, pad |-> Num(0), tail |-> <<>>]
Str(s) == [null |-> FALSE, pad |-> Num(0), tail |-> s]
Padded(p, s) == [null |-> FALSE, pad |-> p, tail |-> s]
Size(b) == Add(b.pad, Num(Len(b.tail)))
\* the byte b[i], i < Size(b)
At(b, i) == IF Lt(i, b.pad) THEN FILL ELSE b.tail[Sub(i, b.pad)[2] + 1]
\* bytes_ref(b.c_str(), n): the first n bytes, n <= Size(b)
Prefix(b, n) ==
  IF Le(n, b.pad) THEN Padded(n, <<>>)
  ELSE Padded(b.pad, SubSeq(b.tail, 1, Sub(n, b.pad)[2]))
\* bytes_ref(b.c_str() + n, b.size() - n), n <= Size(b)
Suffix(b, n) ==
  IF Le(n, b.pad) THEN Padded(Sub(b.pad, n), b.tail)
  ELSE Padded(Num(0), SubSeq(b.tail, Sub(n, b.pad)[2] + 1, Len(b.tail)))
\* the bytes b[from, to)
Slice(b, from, to) == Prefix(Suffix(b, from), Sub(to, from))
\* a followed by b, b without filler
Concat(a, b) == Padded(a.pad, a.tail \o b.tail)
SameBytes(a, b) == a.pad = b.pad /\ a.tail = b.tail

SeqsUpTo(n) == UNION {[1..k -> Char] : k \in 0..n}

(***************************************************************************)
(* delimited_token_stream.cpp: eval_term                                   *)
(***************************************************************************)
\* the for loop of eval_term over data[i], i = 1 .. count-1 (0-based);
\* yields the values of `start` and `buf` when the loop is left
RECURSIVE eval_loop(_, _, _, _, _)
eval_loop(d, i, escaped, start, buf) ==
  IF i >= Len(d) THEN [start |-> start, buf |-> buf]
  ELSE IF d[i + 1] = QUOTE
    THEN IF escaped /\ start = i
           THEN eval_loop(d, i + 1, FALSE, start, buf)        \* an escaped quote
         ELSE IF escaped
           THEN [start |-> start, buf |-> buf]                \* mismatched quote
         ELSE eval_loop(d, i + 1, TRUE, i + 1,
                        buf \o SubSeq(d, start + 1, i))
    ELSE eval_loop(d, i + 1, escaped, start, buf)

\* eval_term without the `start == data.size()` test of its last line
eval_term_unterminated(data) ==
  IF Size(data) = Num(0) \/ At(data, Num(0)) # QUOTE THEN data
  ELSE LET r == eval_loop(data.tail, 1, FALSE, 1, <<>>)
       IN IF r.start # 1 THEN Str(r.buf) ELSE data

eval_term(data) ==
  IF Size(data) = Num(0) \/ At(data, Num(0)) # QUOTE THEN data
  ELSE LET r == eval_loop(data.tail, 1, FALSE, 1, <<>>)
       IN IF r.start # 1 /\ r.start = Len(data.tail) THEN Str(r.buf) ELSE data

(***************************************************************************)
(* delimited_token_stream.cpp: find_delimiter                              *)
(***************************************************************************)
\* memcmp(data.c_str() + i, delim.c_str(), delim.size()) == 0
delim_matches(data, delim, i) ==
  \A j \in 1..Len(delim.tail) : At(data, Add(i, Num(j - 1))) = delim.tail[j]

\* ++i; inside the filler prefix an unquoted scan with a non-empty delimiter
\* finds neither a match nor a quote, so the loop is advanced to its end
next_index(data, delim, i) ==
  IF Len(delim.tail) > 0 /\ Lt(Add(i, Num(1)), data.pad)
    THEN data.pad ELSE Add(i, Num(1))

\* find_delimiter's loop without the quoted state: every match counts
RECURSIVE find_loop_unquoted(_, _, _, _)
find_loop_unquoted(data, delim, i, quoted) ==
  IF ~Lt(i, Size(data)) THEN Size(data)
  ELSE IF Lt(Sub(Size(data), i), Size(delim)) THEN Size(data)
  ELSE IF delim_matches(data, delim, i) /\ (i # Num(0) \/ Size(delim) # Num(0))
    THEN i
  ELSE find_loop_unquoted(data, delim, next_index(data, delim, i), FALSE)

RECURSIVE find_loop(_, _, _, _)
find_loop(data, delim, i, quoted) ==
  IF ~Lt(i, Size(data)) THEN Size(data)
  ELSE IF quoted
    THEN find_loop(data, delim, Add(i, Num(1)), At(data, i) # QUOTE)
  ELSE IF Lt(Sub(Size(data), i), Size(delim)) THEN Size(data)
  ELSE IF delim_matches(data, delim, i) /\ (i # Num(0) \/ Size(delim) # Num(0))
    THEN i
  ELSE find_loop(data, delim, next_index(data, delim, i), At(data, i) = QUOTE)

find_delimiter(data, delim) ==
  IF delim.null THEN Size(data) ELSE find_loop(data, delim, Num(0), FALSE)

(***************************************************************************)
(* Inputs                                                                  *)
(***************************************************************************)
Delims == {NIL, Str(<<>>), Str(<<",">>), Str(<<QUOTE, ",">>)}
Pads == {Num(0), P32(-3), P32(-2)}
\* a filler prefix is given only to scans that cross it in one step
PadsFor(delim) == IF ~delim.null /\ Len(delim.tail) = 0 THEN {Num(0)} ELSE Pads
InputsUpTo(n, delim) ==
  {NIL} \cup {Padded(p, s) : p \in PadsFor(delim), s \in SeqsUpTo(n)}

VARIABLES kind, dts, tss, tts, resets, reset_ret, emitted, input, call,
          cached_state_by_key, pc, frame, result, analyzers, loads, calls,
          env, consulted, conf, sets, bitsets

cachevars == <<cached_state_by_key, pc, frame, result, analyzers, loads, calls,
               env, consulted, conf, sets, bitsets>>
vars == <<kind, dts, tss, tts, resets, reset_ret, emitted, input, call, cachevars>>

Kinds == {"delimited", "stem", "text"}
\* irs::increment: the value a position increment attribute is created with
increment == 1

(***************************************************************************)
(* delimited_token_stream                                                  *)
(***************************************************************************)
\* delimited_token_stream::delimited_token_stream(delimiter)
delimited_ctor(delimiter) ==
  [delim_ |-> delimiter, data_ |-> NIL, payload_ |-> NIL, term_ |-> NIL,
   offset_ |-> [start |-> Num(0), end |-> Num(0)], inc_ |-> increment]

\* reset() that starts the offset cursor at 0 instead of at -delim_.size()
delimited_reset_from_zero(s, data) ==
  [s EXCEPT !.data_ = data,
            !.offset_ = [start |-> Num(0), end |-> Num(0)]]

\* reset() that leaves the offset cursor where the last stream left it
delimited_reset_keeping_offsets(s, data) == [s EXCEPT !.data_ = data]

\* delimited_token_stream::reset(data)
delimited_reset(s, data) ==
  [s EXCEPT !.data_ = data,
            !.offset_ = [start |-> Num(0),
                         end |-> U32(Sub(Num(0), U32(Size(s.delim_))))]]

\* an advance that stops in front of the delimiter
next_position_at_match(size, delim) == size

\* an advance that steps over one byte of the delimiter only
next_position_one_byte(size, delim) == Max(Num(1), Add(size, Num(1)))

\* std::max(size_t(1), size + delim_.size())
next_position(size, delim) == Max(Num(1), Add(size, Size(delim)))

\* next() that stores the offsets before it tests them against the 32-bit range
delimited_next_store_first(s) ==
  IF s.data_.null THEN [ret |-> FALSE, s |-> s]
  ELSE
    LET size == find_delimiter(s.data_, s.delim_)
        next == next_position(size, s.delim_)
        start == U32(Add(s.offset_.end, U32(Size(s.delim_))))
        end == Add(start, size)
        payload == Prefix(s.data_, size)
        stored == [s EXCEPT !.offset_ = [start |-> start, end |-> U32(end)]]
    IN IF Lt(UINT32_MAX, end) THEN [ret |-> FALSE, s |-> stored]
       ELSE [ret |-> TRUE,
             s |-> [stored EXCEPT
                      !.payload_ = payload,
                      !.term_ = IF s.delim_.null THEN payload
                                ELSE eval_term(payload),
                      !.data_ = IF ~Lt(size, Size(s.data_)) THEN NIL
                                ELSE Suffix(s.data_, next)]]

\* next() that returns false on a suffix of zero bytes as on an absent one
delimited_next_false_on_empty(s) ==
  IF s.data_.null \/ Size(s.data_) = Num(0) THEN [ret |-> FALSE, s |-> s]
  ELSE
    LET size == find_delimiter(s.data_, s.delim_)
        next == next_position(size, s.delim_)
        start == U32(Add(s.offset_.end, U32(Size(s.delim_))))
        end == Add(start, size)
        payload == Prefix(s.data_, size)
    IN IF Lt(UINT32_MAX, end) THEN [ret |-> FALSE, s |-> s]
       ELSE [ret |-> TRUE,
             s |-> [s EXCEPT
                      !.offset_ = [start |-> start, end |-> U32(end)],
                      !.payload_ = payload,
                      !.term_ = IF s.delim_.null THEN payload
                                ELSE eval_term(payload),
                      !.data_ = IF ~Lt(size, Size(s.data_)) THEN NIL
                                ELSE Suffix(s.data_, next)]]

\* delimited_token_stream::next(): [ret, s]
delimited_next(s) ==
  IF s.data_.null THEN [ret |-> FALSE, s |-> s]
  ELSE
    LET size == find_delimiter(s.data_, s.delim_)
        next == next_position(size, s.delim_)
        start == U32(Add(s.offset_.end, U32(Size(s.delim_))))
        end == Add(start, size)
        payload == Prefix(s.data_, size)
    IN IF Lt(UINT32_MAX, end) THEN [ret |-> FALSE, s |-> s]
       ELSE [ret |-> TRUE,
             s |-> [s EXCEPT
                      !.offset_ = [start |-> start, end |-> U32(end)],
                      !.payload_ = payload,
                      !.term_ = IF s.delim_.null THEN payload
                                ELSE eval_term(payload),
                      !.data_ = IF ~Lt(size, Size(s.data_)) THEN NIL
                                ELSE Suffix(s.data_, next)]]

\* the attributes a caller reads after next()
Token(term, payload, offset, inc) ==
  [term |-> term, payload |-> payload,
   start |-> offset.start, end |-> offset.end, inc |-> inc]

\* the outcome of a call: `ub` marks a call whose behaviour is undefined,
\* `again` a next() made after a next() that returned false
Returned(op, ret) == [op |-> op, ret |-> ret, ub |-> FALSE, again |-> FALSE]
\* the last call was a next() that returned false
StreamEnded == call.op = "next" /\ ~call.ret /\ ~call.ub
NextReturned(ret) == [Returned("next", ret) EXCEPT !.again = StreamEnded]

DelimitedReset ==
  /\ kind = "delimited"
  /\ resets < MaxResets
  /\ \E data \in InputsUpTo(IF resets = 0 THEN MaxLen ELSE MaxReLen, dts.delim_) :
       /\ dts' = delimited_reset(dts, data)
       /\ input' = data
  /\ resets' = resets + 1
  /\ emitted' = <<>>
  /\ call' = Returned("reset", TRUE)
  /\ reset_ret' = TRUE
  /\ UNCHANGED <<kind, tss, tts, cachevars>>

DelimitedNext ==
  /\ kind = "delimited"
  /\ LET r == delimited_next(dts)
     IN /\ dts' = r.s
        /\ emitted' = IF r.ret
                        THEN Append(emitted, Token(r.s.term_, r.s.payload_,
                                                   r.s.offset_, r.s.inc_))
                      ELSE emitted
        /\ call' = NextReturned(r.ret)
  /\ UNCHANGED <<kind, tss, tts, resets, reset_ret, input, cachevars>>

(***************************************************************************)
(* Text of the stemming-only and linguistic analyzers: a sequence of       *)
(* characters.  BAD stands for bytes that are not valid in the encoding.   *)
(* The tables below stand for ICU and Snowball on this alphabet.           *)
(***************************************************************************)
BAD == "?"
SPACE == " "
\* the Angstrom sign U+212B: a letter that is not in normal form C, one
\* UTF-16 unit and three UTF-8 bytes
ANGSTROM == "A*"
Letters == {"a", "A", "a'", "A'", ANGSTROM}
TChar == {"a", "A", "a'", SPACE}
Utf8Len(c) == IF c = ANGSTROM THEN 3 ELSE IF c \in {"a'", "A'"} THEN 2 ELSE 1
RECURSIVE Utf8Size(_)
Utf8Size(t) == IF t = <<>> THEN 0 ELSE Utf8Len(Head(t)) + Utf8Size(Tail(t))
\* string_ref::size() of a text
TextSize(b) == Add(b.pad, Num(Utf8Size(b.tail)))
\* a text that is not valid in the encoding
BadText == Str(<<BAD>>)
TextsUpTo(n) ==
  {NIL, BadText} \cup {Str(t) : t \in UNION {[1..k -> TChar] : k \in 0..n}}

\* irs::locale_utils::append_internal: fails on bytes it cannot convert
append_internal(data) == \A i \in 1..Len(data.tail) : data.tail[i] # BAD

\* icu::Normalizer2 (NFC): the Angstrom sign composes to A with a mark
Normalize(c) == IF c = ANGSTROM THEN "A'" ELSE c
ToLower(c) == IF c = "A" THEN "a" ELSE IF c \in {"A'", ANGSTROM} THEN "a'" ELSE c
ToUpper(c) == IF c = "a" THEN "A" ELSE IF c = "a'" THEN "A'" ELSE c
NoAccent(c) == IF c = "a'" THEN "a" ELSE IF c \in {"A'", ANGSTROM} THEN "A" ELSE c
NormalizeWord(w) == [i \in 1..Len(w) |-> Normalize(w[i])]
LowerWord(w) == [i \in 1..Len(w) |-> ToLower(w[i])]
UpperWord(w) == [i \in 1..Len(w) |-> ToUpper(w[i])]
NoAccentWord(w) == [i \in 1..Len(w) |-> NoAccent(w[i])]
\* sb_stemmer_stem: the stem of a word (a final "a" after the first letter is a suffix)
sb_stemmer_stem(w) ==
  IF Len(w) >= 2 /\ w[Len(w)] = "a" THEN SubSeq(w, 1, Len(w) - 1) ELSE w
\* sb_stemmer_new: null for a language without a stemming algorithm
StemLanguages == {"en"}
sb_stemmer_new(language) == language \in StemLanguages

(***************************************************************************)
(* text_token_stemming_stream                                              *)
(***************************************************************************)
Locales == {"en", "xx"}

\* text_token_stemming_stream::text_token_stemming_stream(locale)
stemming_ctor(locale) ==
  [locale_ |-> locale, stemmer_ |-> FALSE, sb_stemmer_new_calls |-> 0,
   term_eof_ |-> TRUE,
   term_ |-> NIL, term_buf_ |-> Str(<<>>), payload_ |-> NIL,
   offset_ |-> [start |-> Num(0), end |-> Num(0)], inc_ |-> increment]

\* irs::integer_traits<int>::const_max
INT_MAX == 2147483647
\* term_buf_.resize(INT_MAX) of a buffer longer than INT_MAX bytes; such a
\* buffer starts with more than INT_MAX filler bytes
resize_to_int_max(buf) ==
  IF Lt(Num(INT_MAX), TextSize(buf)) THEN Padded(Num(INT_MAX), <<>>) ELSE buf
\* sb_stemmer_stem on a buffer; a run of filler bytes has no suffix
stem_of(buf) == IF buf.pad = Num(0) THEN Str(sb_stemmer_stem(buf.tail)) ELSE buf

\* if (!stemmer_) stemmer_.reset(sb_stemmer_new(...)): the calls of
\* sb_stemmer_new made on this instance so far
stemmer_calls(s) ==
  IF s.stemmer_ THEN s.sb_stemmer_new_calls ELSE s.sb_stemmer_new_calls + 1

\* text_token_stemming_stream::reset(data): [ret, s]
stemming_reset(s, data) ==
  LET stemmer == s.stemmer_ \/ sb_stemmer_new(s.locale_)
      cleared == [s EXCEPT !.stemmer_ = stemmer,
                           !.sb_stemmer_new_calls = stemmer_calls(s),
                           !.term_ = NIL,
                           !.term_buf_ = Str(<<>>), !.term_eof_ = TRUE]
      term_buf == IF stemmer THEN resize_to_int_max(Padded(data.pad, data.tail))
                  ELSE Padded(data.pad, data.tail)
  IN IF ~append_internal(data) THEN [ret |-> FALSE, s |-> cleared]
     ELSE [ret |-> TRUE,
           s |-> [cleared EXCEPT
                    !.term_buf_ = term_buf,
                    !.offset_ = [start |-> Num(0), end |-> U32(TextSize(data))],
                    !.payload_ = data,
                    !.term_eof_ = FALSE,
                    !.term_ = IF stemmer THEN stem_of(term_buf) ELSE term_buf]]

\* next() that leaves term_eof_ as it is
stemming_next_repeating(s) ==
  IF s.term_eof_ THEN [ret |-> FALSE, s |-> s] ELSE [ret |-> TRUE, s |-> s]

\* text_token_stemming_stream::next(): [ret, s]
stemming_next(s) ==
  IF s.term_eof_ THEN [ret |-> FALSE, s |-> s]
  ELSE [ret |-> TRUE, s |-> [s EXCEPT !.term_eof_ = TRUE]]

\* the data handed to reset(): short texts, and texts of 2^32 - 3 and of
\* 2^32 + 1 bytes
StemmingInputs ==
  TextsUpTo(IF resets = 0 THEN MaxText ELSE MaxReText)
    \cup {Padded(P32(-3), <<>>), Padded(P32(1), <<>>)}

StemmingReset ==
  /\ kind = "stem"
  /\ resets < MaxResets
  /\ \E data \in StemmingInputs :
       LET r == stemming_reset(tss, data)
       IN /\ tss' = r.s
          /\ input' = data
          /\ call' = Returned("reset", r.ret)
          /\ reset_ret' = r.ret
  /\ resets' = resets + 1
  /\ emitted' = <<>>
  /\ UNCHANGED <<kind, dts, tts, cachevars>>

StemmingNext ==
  /\ kind = "stem"
  /\ LET r == stemming_next(tss)
     IN /\ tss' = r.s
        /\ emitted' = IF r.ret
                        THEN Append(emitted, Token(r.s.term_, r.s.payload_,
                                                   r.s.offset_, r.s.inc_))
                      ELSE emitted
        /\ call' = NextReturned(r.ret)
  /\ UNCHANGED <<kind, dts, tts, resets, reset_ret, input, cachevars>>

(***************************************************************************)
(* text_token_stream: the analyzer instance                                *)
(***************************************************************************)
\* options_t; the defaults are those of the fields' declarations
CaseConverts == {"LOWER", "NONE", "UPPER"}
\* a stopwordsPath holding the single byte 0 stands for "not set"
NUL == "NUL"
PathUnset == <<NUL>>
\* a const char* handed to a string_ref or std::string: the bytes before
\* the first zero byte
RECURSIVE c_str(_)
c_str(bytes) ==
  IF bytes = <<>> \/ Head(bytes) = NUL THEN <<>>
  ELSE <<Head(bytes)>> \o c_str(Tail(bytes))
default_options ==
  [locale |-> "", case_convert |-> "NONE", no_accent |-> FALSE, no_stem |-> FALSE,
   explicit_stopwords |-> {}, explicit_stopwords_set |-> FALSE,
   stopwordsPath |-> PathUnset]

\* icu::Locale(language, country).isBogus()
BogusLocales == {"!"}
\* irs::locale_utils::language(locale)
language(locale) == locale

\* icu::BreakIterator (word instance): a span is a maximal run of letters or
\* a maximal run of other characters; positions count UTF-16 units, one per
\* character of TChar
DONE == -1
IsLetter(c) == c \in Letters
RECURSIVE following(_, _)
following(text, p) ==
  IF p >= Len(text) THEN Len(text)
  ELSE IF IsLetter(text[p]) # IsLetter(text[p + 1]) THEN p
  ELSE following(text, p + 1)
\* BreakIterator::next(): the boundary after `pos`, DONE at the end
bi_next(text, pos) == IF pos >= Len(text) THEN DONE ELSE following(text, pos + 1)
\* BreakIterator::getRuleStatus() of the span ending at `end_`
UBRK_WORD_NONE(text, end_) == ~IsLetter(text[end_])

\* text_token_stream::text_token_stream(options, stopwords): `entry` names
\* the cached_options_t the two references point at, 0 when the caller owns
\* the options
text_ctor(entry, options, stopwords) ==
  [live |-> TRUE, entry |-> entry, options |-> options, stopwords |-> stopwords,
   icu_locale |-> "bogus", normalizer |-> FALSE, transliterator |-> FALSE,
   break_iterator |-> FALSE, stemmer |-> FALSE,
   created |-> [normalizer |-> 0, transliterator |-> 0, break_iterator |-> 0,
                stemmer |-> 0],
   data |-> <<>>, bi_pos |-> 0,
   term_ |-> NIL, offs_ |-> [start |-> Num(0), end |-> Num(0)], inc_ |-> increment]

\* the outcomes of the two library calls of one process_term: whether
\* Normalizer2::normalize succeeds and whether sb_stemmer_stem returns a stem
IcuOutcomes == [normalized : BOOLEAN, stemmed : BOOLEAN]

\* the word whose membership in the stopwords process_term tests
transform(s, data, normalized) ==
  LET word == IF normalized THEN NormalizeWord(data) ELSE data
      cased == IF s.options.case_convert = "LOWER" THEN LowerWord(word)
               ELSE IF s.options.case_convert = "UPPER" THEN UpperWord(word)
               ELSE word
  IN IF s.transliterator THEN NoAccentWord(cased) ELSE cased

\* process_term that stems the word before the stopwords are consulted
process_term_stem_first(s, data, icu) ==
  LET word_utf8 == transform(s, data, icu.normalized)
      stem == IF s.stemmer /\ icu.stemmed THEN sb_stemmer_stem(word_utf8)
              ELSE word_utf8
  IN IF stem \in s.stopwords THEN [ok |-> FALSE, term |-> s.term_]
     ELSE [ok |-> TRUE, term |-> Str(stem)]

\* process_term that hands the span to the stemmer as it was read
process_term_raw(s, data, icu) ==
  LET word_utf8 == transform(s, data, icu.normalized)
  IN IF word_utf8 \in s.stopwords THEN [ok |-> FALSE, term |-> s.term_]
     ELSE IF s.stemmer /\ icu.stemmed
       THEN [ok |-> TRUE, term |-> Str(sb_stemmer_stem(data))]
     ELSE [ok |-> TRUE, term |-> Str(data)]

\* process_term(term, state, data): [ok, term]
process_term(s, data, icu) ==
  LET word_utf8 == transform(s, data, icu.normalized)
  IN IF word_utf8 \in s.stopwords THEN [ok |-> FALSE, term |-> s.term_]
     ELSE IF s.stemmer /\ icu.stemmed
       THEN [ok |-> TRUE, term |-> Str(sb_stemmer_stem(word_utf8))]
     ELSE [ok |-> TRUE, term |-> Str(word_utf8)]

\* irs::integer_traits<int32_t>::const_max
INT32_MAX == 2147483647

\* text_token_stream::reset(data): [ret, s].  nfc, translit and brk tell
\* whether ICU can create the normalizer, the transliterator and the break
\* iterator when asked
text_reset(s, data, nfc, translit, brk) ==
  LET s1 == IF s.icu_locale = "bogus"
              THEN [s EXCEPT !.icu_locale =
                      IF s.options.locale \in BogusLocales THEN "bogus" ELSE "ok"]
            ELSE s
      s2 == IF ~s1.normalizer
              THEN [s1 EXCEPT !.normalizer = nfc,
                              !.created.normalizer = @ + 1]
            ELSE s1
      s3 == IF s2.options.no_accent /\ ~s2.transliterator
              THEN [s2 EXCEPT !.transliterator = translit,
                              !.created.transliterator = @ + 1]
            ELSE s2
      s4 == IF ~s3.break_iterator
              THEN [s3 EXCEPT !.break_iterator = brk,
                              !.created.break_iterator = @ + 1]
            ELSE s3
      s5 == IF ~s4.options.no_stem /\ ~s4.stemmer
              THEN [s4 EXCEPT !.stemmer = sb_stemmer_new(language(s4.options.locale)),
                              !.created.stemmer = @ + 1]
            ELSE s4
  IN IF s1.icu_locale = "bogus" THEN [ret |-> FALSE, s |-> s1]
     ELSE IF ~s2.normalizer THEN [ret |-> FALSE, s |-> s2]
     ELSE IF s3.options.no_accent /\ ~s3.transliterator THEN [ret |-> FALSE, s |-> s3]
     ELSE IF ~s4.break_iterator THEN [ret |-> FALSE, s |-> s4]
     ELSE IF ~append_internal(data) THEN [ret |-> FALSE, s |-> s5]
     ELSE IF Lt(Num(INT32_MAX), TextSize(data)) THEN [ret |-> FALSE, s |-> s5]
     ELSE [ret |-> TRUE, s |-> [s5 EXCEPT !.data = data.tail, !.bi_pos = 0]]

\* a loop of next() that counts in inc_ the spans it passes
RECURSIVE text_next_loop_counting(_, _, _, _)
text_next_loop_counting(s, start, end_, icu) ==
  IF end_ = DONE THEN [ret |-> FALSE, s |-> s]
  ELSE
    LET moved == [s EXCEPT !.bi_pos = end_]
        term == process_term(s, SubSeq(s.data, start + 1, end_), icu[end_])
    IN IF UBRK_WORD_NONE(s.data, end_) \/ ~term.ok
         THEN text_next_loop_counting([moved EXCEPT !.inc_ = s.inc_ + 1], end_,
                                      bi_next(s.data, end_), icu)
       ELSE [ret |-> TRUE,
             s |-> [moved EXCEPT !.term_ = term.term,
                                 !.offs_ = [start |-> Num(start), end |-> Num(end_)]]]

\* the for loop of text_token_stream::next(): [ret, s]; icu[e] holds the
\* outcomes of the library calls made for the span ending at e
RECURSIVE text_next_loop(_, _, _, _)
text_next_loop(s, start, end_, icu) ==
  IF end_ = DONE THEN [ret |-> FALSE, s |-> s]
  ELSE
    LET moved == [s EXCEPT !.bi_pos = end_]
        term == process_term(s, SubSeq(s.data, start + 1, end_), icu[end_])
    IN IF UBRK_WORD_NONE(s.data, end_) \/ ~term.ok
         THEN text_next_loop(moved, end_, bi_next(s.data, end_), icu)
       ELSE [ret |-> TRUE,
             s |-> [moved EXCEPT !.term_ = term.term,
                                 !.offs_ = [start |-> Num(start), end |-> Num(end_)]]]

\* text_token_stream::next() on an instance whose break_iterator is set
text_next(s, icu) == text_next_loop(s, s.bi_pos, bi_next(s.data, s.bi_pos), icu)

\* the ends of the spans with linguistic content that next() has yet to visit
ContentEnds(s) ==
  {e \in (s.bi_pos + 1)..Len(s.data) :
     /\ IsLetter(s.data[e])
     /\ e = Len(s.data) \/ ~IsLetter(s.data[e + 1])}
\* the outcomes the library calls made for the span ending at e may have,
\* those left out that cannot be told from another: of a call that is not
\* made, of a failed normalization of characters in normal form, of a
\* failed stemming of a single letter
OutcomesAt(s, e) ==
  {o \in IcuOutcomes :
     /\ e \notin ContentEnds(s) => o = [normalized |-> TRUE, stemmed |-> TRUE]
     /\ ~s.stemmer => o.stemmed
     /\ (e > 1 /\ IsLetter(s.data[e - 1])) \/ o.stemmed
     /\ (\E i \in 1..e : Normalize(s.data[i]) # s.data[i]) \/ o.normalized}
\* the outcomes of the library calls next() may make, one for each span end
\* up to n
RECURSIVE OutcomesUpTo(_, _)
OutcomesUpTo(s, n) ==
  IF n = 0 THEN {<<>>}
  ELSE {Append(icu, o) : icu \in OutcomesUpTo(s, n - 1), o \in OutcomesAt(s, n)}
Outcomes(s) == OutcomesUpTo(s, Len(s.data))

\* no linguistic analyzer instance is under test
NoStream == [text_ctor(0, default_options, {}) EXCEPT !.live = FALSE]

TextOptions ==
  {[default_options EXCEPT !.locale = "en", !.case_convert = c,
                           !.no_accent = a, !.no_stem = n] :
     c \in CaseConverts, a \in BOOLEAN, n \in BOOLEAN}
  \cup {[default_options EXCEPT !.locale = l] : l \in {"xx", "!"}}
TextStopwords == {{}, {<<"a">>, <<"A'">>}}

\* the texts handed to reset(); an analyzer obtained through the cache is
\* given one of a few
CacheTexts == {Str(<<"a", SPACE, "A">>), BadText}
\* texts that are not in normal form C
NonNfcTexts == {Str(<<ANGSTROM>>), Str(<<ANGSTROM, SPACE, "a">>)}
\* a text of 2^32 - 3 bytes
LongText == Padded(P32(-3), <<>>)
TextInputs ==
  IF tts.entry # 0 THEN CacheTexts
  ELSE TextsUpTo(IF resets = 0 THEN MaxText ELSE MaxReText)
         \cup {LongText} \cup (IF resets = 0 THEN NonNfcTexts ELSE {})
\* the texts that tell one reset() from another: when reset() returns
\* before it reads its argument, the empty text stands for all
TextsRead(nfc, translit, brk) ==
  IF text_reset(tts, Str(<<>>), nfc, translit, brk).ret THEN TextInputs
  ELSE {Str(<<>>)}
TextResets == IF tts.entry # 0 THEN MaxCacheResets ELSE MaxResets

\* the outcomes of creating an ICU object, when reset() asks for one; for
\* an analyzer obtained through the cache the creations succeed
Creates(asked) == IF asked /\ tts.entry = 0 THEN BOOLEAN ELSE {TRUE}

TextReset ==
  /\ kind = "text"
  /\ tts.live
  /\ resets < TextResets
  /\ \E nfc \in Creates(~tts.normalizer),
        translit \in Creates(tts.options.no_accent /\ ~tts.transliterator),
        brk \in Creates(~tts.break_iterator) :
     \E data \in TextsRead(nfc, translit, brk) :
       LET r == text_reset(tts, data, nfc, translit, brk)
       IN /\ tts' = r.s
          /\ input' = data
          /\ call' = Returned("reset", r.ret)
          /\ reset_ret' = r.ret
  /\ resets' = resets + 1
  /\ emitted' = <<>>
  /\ UNCHANGED <<kind, dts, tss, cachevars>>

TextNext ==
  /\ kind = "text"
  /\ tts.live
  /\ tts.break_iterator
  /\ \E icu \in Outcomes(tts) :
     LET r == text_next(tts, icu)
     IN /\ tts' = r.s
        /\ emitted' = IF r.ret
                        THEN Append(emitted, Token(r.s.term_, NIL, r.s.offs_, r.s.inc_))
                      ELSE emitted
        /\ call' = NextReturned(r.ret)
  /\ UNCHANGED <<kind, dts, tss, resets, reset_ret, input, cachevars>>

\* text_token_stream::next() while break_iterator is null: the call
\* dereferences a null pointer, its behaviour is undefined
TextNextNull ==
  /\ kind = "text"
  /\ tts.live
  /\ ~tts.break_iterator
  /\ \E r \in BOOLEAN : call' = [Returned("next", r) EXCEPT !.ub = TRUE]
  /\ UNCHANGED <<kind, dts, tss, tts, resets, reset_ret, input, emitted, cachevars>>

(***************************************************************************)
(* text_token_stream.cpp: configuration strings.  A configuration string   *)
(* is the cache key; ParseJson is rapidjson's reading of it.               *)
(***************************************************************************)
JString(v) == [type |-> "string", v |-> v]
JBool(v) == [type |-> "bool", v |-> v]
JArray(v) == [type |-> "array", v |-> v]
JNumber == [type |-> "number", v |-> 0]
JObject(m) == [type |-> "object", v |-> m]
JError == [type |-> "error", v |-> 0]

CfgPlainEn == "en"
CfgString == "\"en\""
CfgLocale == "{\"locale\":\"en\"}"
CfgWords == "{\"locale\":\"en\",\"stopwords\":[\"A\"]}"
CfgPath == "{\"locale\":\"en\",\"stopwordsPath\":\"p\"}"
Configs == {CfgPlainEn, CfgString, CfgLocale, CfgWords, CfgPath}
\* configurations that differ in where the stopwords come from
CfgLocaleXx == "{\"locale\":\"xx\"}"
CfgNoWords == "{\"locale\":\"en\",\"stopwords\":[]}"
CfgPathEmpty == "{\"locale\":\"en\",\"stopwordsPath\":\"\"}"
CfgPathMissing == "{\"locale\":\"en\",\"stopwordsPath\":\"q\"}"
CfgWordsPath == "{\"locale\":\"en\",\"stopwords\":[\"b\"],\"stopwordsPath\":\"p\"}"
CfgWordsPathMissing ==
  "{\"locale\":\"en\",\"stopwords\":[\"b\"],\"stopwordsPath\":\"q\"}"
CfgNoWordsPathEmpty == "{\"locale\":\"en\",\"stopwords\":[],\"stopwordsPath\":\"\"}"
StopwordConfigs ==
  {CfgLocale, CfgLocaleXx, CfgWords, CfgNoWords, CfgPath, CfgPathEmpty,
   CfgPathMissing, CfgWordsPath, CfgWordsPathMissing, CfgNoWordsPathEmpty}

\* rapidjson::Document::Parse(args)
ParseJson(args) ==
  CASE args = CfgString -> JString("en")
    [] args = CfgLocale -> JObject([locale |-> JString("en")])
    [] args = CfgWords ->
         JObject([locale |-> JString("en"), stopwords |-> JArray(<<JString(<<"A">>)>>)])
    [] args = CfgPath ->
         JObject([locale |-> JString("en"), stopwordsPath |-> JString(<<"p">>)])
    [] args = CfgLocaleXx -> JObject([locale |-> JString("xx")])
    [] args = CfgNoWords ->
         JObject([locale |-> JString("en"), stopwords |-> JArray(<<>>)])
    [] args = CfgPathEmpty ->
         JObject([locale |-> JString("en"), stopwordsPath |-> JString(<<>>)])
    [] args = CfgPathMissing ->
         JObject([locale |-> JString("en"), stopwordsPath |-> JString(<<"q">>)])
    [] args = CfgWordsPath ->
         JObject([locale |-> JString("en"), stopwords |-> JArray(<<JString(<<"b">>)>>),
                  stopwordsPath |-> JString(<<"p">>)])
    [] args = CfgWordsPathMissing ->
         JObject([locale |-> JString("en"), stopwords |-> JArray(<<JString(<<"b">>)>>),
                  stopwordsPath |-> JString(<<"q">>)])
    [] args = CfgNoWordsPathEmpty ->
         JObject([locale |-> JString("en"), stopwords |-> JArray(<<>>),
                  stopwordsPath |-> JString(<<>>)])
    [] OTHER -> JError

HasMember(json, name) == name \in DOMAIN json.v
IsString(j) == j.type = "string"

\* make_json, lines 570-667: the options read from a JSON object that has a
\* string "locale"; [ok, options]
json_options(json) ==
  LET m == json.v
      o1 == [default_options EXCEPT !.locale = m.locale.v]
      caseBad == HasMember(json, "caseConvert")
                   /\ (~IsString(m.caseConvert) \/ m.caseConvert.v \notin
                         {"lower", "none", "upper"})
      o2 == IF HasMember(json, "caseConvert") /\ ~caseBad
              THEN [o1 EXCEPT !.case_convert =
                      CASE m.caseConvert.v = "lower" -> "LOWER"
                        [] m.caseConvert.v = "upper" -> "UPPER"
                        [] OTHER -> "NONE"]
            ELSE o1
      wordsBad == HasMember(json, "stopwords")
                    /\ (m.stopwords.type # "array"
                        \/ \E i \in 1..Len(m.stopwords.v) : ~IsString(m.stopwords.v[i]))
      o3 == IF HasMember(json, "stopwords") /\ ~wordsBad
              THEN [o2 EXCEPT !.explicit_stopwords_set = TRUE,
                              !.explicit_stopwords =
                                 {c_str(m.stopwords.v[i].v) : i \in 1..Len(m.stopwords.v)}]
            ELSE o2
      pathBad == HasMember(json, "stopwordsPath") /\ ~IsString(m.stopwordsPath)
      o4 == IF HasMember(json, "stopwordsPath") /\ ~pathBad
              THEN [o3 EXCEPT !.stopwordsPath = c_str(m.stopwordsPath.v)] ELSE o3
      accentBad == HasMember(json, "noAccent") /\ m.noAccent.type # "bool"
      o5 == IF HasMember(json, "noAccent") /\ ~accentBad
              THEN [o4 EXCEPT !.no_accent = m.noAccent.v] ELSE o4
      stemBad == HasMember(json, "noStem") /\ m.noStem.type # "bool"
      o6 == IF HasMember(json, "noStem") /\ ~stemBad
              THEN [o5 EXCEPT !.no_stem = m.noStem.v] ELSE o5
  IN [ok |-> ~(caseBad \/ wordsBad \/ pathBad \/ accentBad \/ stemBad),
      options |-> o6]

\* make_json that goes on with the options read before a field of the wrong
\* type
dispatch_lenient(json) ==
     IF json.type = "error" THEN [to |-> "null", options |-> default_options]
     ELSE IF IsString(json) THEN [to |-> "find", options |-> default_options]
     ELSE IF json.type # "object" \/ ~HasMember(json, "locale")
               \/ ~IsString(json.v.locale)
       THEN [to |-> "null", options |-> default_options]
     ELSE [to |-> "build", options |-> json_options(json).options]

\* make_json, lines 544-568: what the call does with its argument
\*   "null"  return nullptr,  "find"  construct(args),
\*   "build" options parsed, build_stopwords comes next
dispatch(json) ==
     IF json.type = "error" THEN [to |-> "null", options |-> default_options]
     ELSE IF IsString(json) THEN [to |-> "find", options |-> default_options]
     ELSE IF json.type # "object" \/ ~HasMember(json, "locale")
               \/ ~IsString(json.v.locale)
       THEN [to |-> "null", options |-> default_options]
     ELSE LET r == json_options(json)
          IN [to |-> IF r.ok THEN "build" ELSE "null", options |-> r.options]
json_dispatch(args) == dispatch(ParseJson(args))

(***************************************************************************)
(* text_token_stream.cpp: stopwords                                        *)
(***************************************************************************)
\* the stopword files on disk: <root>/<language>/, the roots being the
\* current directory, here "/", and its subdirectory "p"
CWD == <<"/">>
Directories == {<<CWD, "en">>, <<<<"/", "p">>, "en">>}
WordsIn(path, lang) == IF path = CWD THEN {<<"a">>} ELSE {<<"A">>}

\* irs::getenv(STOPWORD_PATH_ENV_VARIABLE): a null pointer when the variable
\* is not set
NoEnv == [null |-> TRUE, path |-> CWD]
Envs ==
  {NoEnv, [null |-> FALSE, path |-> <<"p">>], [null |-> FALSE, path |-> <<"/", "p">>],
   [null |-> FALSE, path |-> <<"q">>]}
\* get_stopwords, lines 143-157: a relative custom path is taken under the
\* current directory
stopword_path(custom) ==
  IF custom # <<>> /\ custom[1] = "/" THEN custom ELSE CWD \o custom
\* get_stopwords: the root used when no path is handed in
default_path == IF env.null THEN CWD ELSE stopword_path(env.path)

\* build_stopwords that takes an empty stopwordsPath for none
path_is_set_nonempty(options) ==
  options.stopwordsPath # <<>> /\ options.stopwordsPath[1] # NUL
\* build_stopwords that reads the default directory whatever the explicit
\* stopwords are
stopwords_directory_always(options) ==
  IF options.stopwordsPath = <<>> \/ options.stopwordsPath[1] # NUL
    THEN [load |-> TRUE, by |-> "path", path |-> stopword_path(options.stopwordsPath)]
  ELSE [load |-> TRUE, by |-> "default", path |-> default_path]

\* build_stopwords that falls back on the default directory whenever the
\* explicit list is empty
stopwords_directory_unmarked(options) ==
  IF options.stopwordsPath = <<>> \/ options.stopwordsPath[1] # NUL
    THEN [load |-> TRUE, by |-> "path", path |-> stopword_path(options.stopwordsPath)]
  ELSE IF options.explicit_stopwords = {}
    THEN [load |-> TRUE, by |-> "default", path |-> default_path]
  ELSE [load |-> FALSE, by |-> "none", path |-> CWD]

\* build_stopwords: the directory get_stopwords is asked to read, if any,
\* and whether it comes from stopwordsPath or is the default one
path_is_set(options) == options.stopwordsPath = <<>> \/ options.stopwordsPath[1] # NUL
stopwords_directory(options) ==
  IF path_is_set(options)
    THEN [load |-> TRUE, by |-> "path", path |-> stopword_path(options.stopwordsPath)]
  ELSE IF ~options.explicit_stopwords_set /\ options.explicit_stopwords = {}
    THEN [load |-> TRUE, by |-> "default", path |-> default_path]
  ELSE [load |-> FALSE, by |-> "none", path |-> CWD]

\* get_stopwords: can succeed only if the directory exists
can_load(options) ==
  <<stopwords_directory(options).path, language(options.locale)>> \in Directories

\* build_stopwords that leaves the explicit words out when a path is set
built_stopwords_path_only(options) ==
  IF path_is_set(options)
    THEN WordsIn(stopwords_directory(options).path, language(options.locale))
  ELSE options.explicit_stopwords \cup
         (IF stopwords_directory(options).load
            THEN WordsIn(stopwords_directory(options).path, language(options.locale))
          ELSE {})

\* build_stopwords(options, buf) when it returns true: the words in buf
built_stopwords(options) ==
  options.explicit_stopwords \cup
    (IF stopwords_directory(options).load
       THEN WordsIn(stopwords_directory(options).path, language(options.locale))
     ELSE {})

\* build_stopwords whose failure goes unnoticed
build_stopwords_unchecked(options, readable) ==
  [ret |-> TRUE, stopwords |-> built_stopwords(options)]

\* build_stopwords(options, buf): [ret, stopwords]; `readable` tells whether
\* the files of an existing directory can be read
build_stopwords(options, readable) ==
  IF stopwords_directory(options).load /\ ~(can_load(options) /\ readable)
    THEN [ret |-> FALSE, stopwords |-> options.explicit_stopwords]
  ELSE [ret |-> TRUE, stopwords |-> built_stopwords(options)]

(***************************************************************************)
(* text_token_stream.cpp: the cache and construct()                        *)
(***************************************************************************)
Threads == {1, 2}

\* the frame of a construction: its arguments and locals; `hit` records
\* whether the key was cached when the call was made
NoFrame == [format |-> "", key |-> "", options |-> default_options,
            stopwords |-> {}, hit |-> FALSE]
\* what a construction returned: nullptr, or an analyzer bound to `entry`
NoResult == [null |-> TRUE, key |-> "", entry |-> 0]

Find(key) == {e \in cached_state_by_key : e.key_ = key}

\* a call returns: nullptr (entry 0) or an analyzer bound to an entry
Return(t, entry) ==
  /\ result' = [result EXCEPT ![t] =
                  [null |-> entry = 0, key |-> frame[t].key, entry |-> entry]]
  /\ analyzers' = IF entry = 0 THEN analyzers
                  ELSE analyzers \cup {[key |-> frame[t].key, entry |-> entry]}
  /\ pc' = [pc EXCEPT ![t] = "idle"]
  /\ frame' = [frame EXCEPT ![t] = NoFrame]

\* thread t calls make_text(args) or make_json(args)
Calling(t, formats, configs) ==
  /\ kind = "text" /\ ~tts.live
  /\ pc[t] = "idle"
  /\ calls < MaxCalls
  /\ calls' = calls + 1
  /\ \E format \in formats, args \in configs :
       frame' = [frame EXCEPT ![t] =
                   [NoFrame EXCEPT !.format = format, !.key = args,
                                   !.hit = Find(args) # {}]]
  /\ pc' = [pc EXCEPT ![t] = "called"]
  /\ result' = [result EXCEPT ![t] = NoResult]
  /\ UNCHANGED <<cached_state_by_key, analyzers, loads, env, consulted, conf, sets, bitsets>>
  /\ UNCHANGED <<kind, dts, tss, tts, resets, reset_ret, emitted, input, call>>

Call(t) == Calling(t, {"text", "json"}, Configs)
\* thread t calls make_json(args)
MakeJson(t) == Calling(t, {"json"}, StopwordConfigs)

\* make_text, lines 693-695, and make_json up to line 668: the arguments
\* are read
Dispatch(t) ==
  /\ pc[t] = "called"
  /\ LET d == IF frame[t].format = "text"
                THEN [to |-> "find", options |-> default_options]
              ELSE json_dispatch(frame[t].key)
     IN IF d.to = "null" THEN Return(t, 0)
        ELSE /\ pc' = [pc EXCEPT ![t] = d.to]
             /\ frame' = [frame EXCEPT ![t].options = d.options]
             /\ UNCHANGED <<result, analyzers>>
  /\ UNCHANGED <<cached_state_by_key, loads, calls, env, consulted, conf, sets, bitsets>>
  /\ UNCHANGED <<kind, dts, tss, tts, resets, reset_ret, emitted, input, call>>

\* construct(cache_key), lines 309-321: the lookup under the mutex
Lookup(t) ==
  /\ pc[t] = "find"
  /\ IF Find(frame[t].key) # {}
       THEN \E e \in Find(frame[t].key) : Return(t, e.id)
       ELSE /\ frame' = [frame EXCEPT ![t].options =
                           [default_options EXCEPT !.locale = frame[t].key]]
            /\ pc' = [pc EXCEPT ![t] = "build"]
            /\ UNCHANGED <<result, analyzers>>
  /\ UNCHANGED <<cached_state_by_key, loads, calls, env, consulted, conf, sets, bitsets>>
  /\ UNCHANGED <<kind, dts, tss, tts, resets, reset_ret, emitted, input, call>>

\* the call of build_stopwords(options, stopwords) at line 328 or line 670
\* and the test of what it returns; the files of a directory that exists
\* may still fail to be read
StopwordsBuilt(t) ==
  /\ LET dir == stopwords_directory(frame[t].options)
     IN /\ loads' = IF dir.load
                      THEN [loads EXCEPT ![frame[t].key] = loads[frame[t].key] + 1]
                    ELSE loads
        /\ consulted' = IF dir.load
                          THEN consulted (+)
                                 SetToBag({<<dir.by, dir.path,
                                             language(frame[t].options.locale)>>})
                        ELSE consulted
        /\ \E readable \in (IF dir.load /\ can_load(frame[t].options)
                              THEN BOOLEAN ELSE {TRUE}) :
             LET b == build_stopwords(frame[t].options, readable)
             IN IF b.ret
                  THEN /\ frame' = [frame EXCEPT ![t].stopwords = b.stopwords]
                       /\ pc' = [pc EXCEPT ![t] = "emplace"]
                       /\ UNCHANGED <<result, analyzers>>
                ELSE Return(t, 0)
  /\ UNCHANGED <<cached_state_by_key, calls, env, conf, sets, bitsets>>
  /\ UNCHANGED <<kind, dts, tss, tts, resets, reset_ret, emitted, input, call>>
BuildStopwords(t) == pc[t] = "build" /\ StopwordsBuilt(t)

\* the same call in two steps, for the calls that read a directory:
\* get_stopwords is entered, lines 131-166, and build_stopwords returns
ScanStart(t) ==
  /\ pc[t] = "build"
  /\ stopwords_directory(frame[t].options).load
  /\ pc' = [pc EXCEPT ![t] = "scan"]
  /\ UNCHANGED <<cached_state_by_key, frame, result, analyzers, loads, calls,
                 env, consulted, conf, sets, bitsets>>
  /\ UNCHANGED <<kind, dts, tss, tts, resets, reset_ret, emitted, input, call>>
ScanEnd(t) == pc[t] = "scan" /\ StopwordsBuilt(t)
\* build_stopwords of options for which no directory is read
BuildWithoutScan(t) ==
  /\ pc[t] = "build"
  /\ ~stopwords_directory(frame[t].options).load
  /\ StopwordsBuilt(t)

\* an insert that adds an entry although the key is present
try_emplace_always(map, key, options, stopwords) ==
  map \cup {[id |-> Cardinality(map) + 1, key_ |-> key,
             options |-> options, stopwords_ |-> stopwords]}

\* an insert that replaces the entry of a key that is present
try_emplace_replace(map, key, options, stopwords) ==
  {e \in map : e.key_ # key}
    \cup {[id |-> Cardinality(map) + 1, key_ |-> key,
            options |-> options, stopwords_ |-> stopwords]}

\* irs::map_utils::try_emplace_update_key: the map after the call; an entry
\* is identified by `id`, the order of its insertion
try_emplace(map, key, options, stopwords) ==
  IF \E e \in map : e.key_ = key THEN map
  ELSE map \cup {[id |-> Cardinality(map) + 1, key_ |-> key,
                  options |-> options, stopwords_ |-> stopwords]}

\* construct(cache_key, options, stopwords), lines 283-300: the insert under
\* the mutex, then the analyzer is bound to the entry the map holds
Emplace(t) ==
  /\ pc[t] = "emplace"
  /\ cached_state_by_key' =
       try_emplace(cached_state_by_key, frame[t].key, frame[t].options,
                   frame[t].stopwords)
  /\ \E e \in {x \in cached_state_by_key' : x.key_ = frame[t].key} :
       Return(t, e.id)
  /\ UNCHANGED <<loads, calls, env, consulted, conf, sets, bitsets>>
  /\ UNCHANGED <<kind, dts, tss, tts, resets, reset_ret, emitted, input, call>>

\* a caller starts to use an analyzer that construct() returned, once the
\* constructions are over
Use ==
  /\ kind = "text" /\ ~tts.live
  /\ calls = MaxCalls
  /\ \A t \in Threads : pc[t] = "idle"
  /\ \E a \in analyzers, e \in cached_state_by_key :
       /\ e.id = a.entry
       /\ tts' = text_ctor(e.id, e.options, e.stopwords_)
  /\ UNCHANGED <<kind, dts, tss, resets, reset_ret, emitted, input, call, cachevars>>

\* no analyzer is being written to a definition or made from one
NoConf == [stage |-> "none"]

\* no HashSet is under test
NoSets == [stage |-> "none"]

\* no configuration is cached, no construction is under way
EmptyCache ==
  /\ cached_state_by_key = {}
  /\ pc = [t \in Threads |-> "idle"]
  /\ frame = [t \in Threads |-> NoFrame]
  /\ result = [t \in Threads |-> NoResult]
  /\ analyzers = {}
  /\ loads = [k \in Configs \cup StopwordConfigs |-> 0]
  /\ consulted = EmptyBag
  /\ calls = 0
\* the environment variable is not set
NoBitsets == [stage |-> "none"]
InitCache ==
  EmptyCache /\ env = NoEnv /\ conf = NoConf /\ sets = NoSets /\ bitsets = NoBitsets

(***************************************************************************)
(* Definitions: to_string and the registered make_json and make_text.      *)
(* A JSON text is held as what rapidjson reads from it or writes to it:    *)
(* an object is the sequence of its members in their order in the text.    *)
(***************************************************************************)
Member(name, value) == [name |-> name, value |-> value]
\* a JSON text that holds an object
JText(members) == [type |-> "object", v |-> members]
\* rapidjson::Document::Parse(text): of two members of one name the first
\* is the one found
Document(text) ==
  IF text.type # "object" THEN text
  ELSE LET names == {text.v[i].name : i \in DOMAIN text.v}
           first(n) == CHOOSE i \in DOMAIN text.v :
                         /\ text.v[i].name = n
                         /\ \A j \in 1..(i - 1) : text.v[j].name # n
       IN JObject([n \in names |-> text.v[first(n)].value])

\* what a constructor returns: nullptr, or an analyzer of some configuration
NoAnalyzer == [null |-> TRUE]
Made(config) == [null |-> FALSE, config |-> config]

\* delimited_token_stream.cpp: make_text(args)
delimited_make_text(args) == Made(delimited_ctor(args).delim_)
\* delimited_token_stream::make(json.GetString())
delimited_make(bytes) == delimited_make_text(Str(c_str(bytes)))
\* make that takes the bytes of the JSON string with their length
delimited_make_sized(bytes) == delimited_make_text(Str(bytes))
\* delimited_token_stream.cpp: make_json(args)
delimited_make_json(args) ==
  LET json == Document(args)
  IN IF json.type = "error" THEN NoAnalyzer
     ELSE IF IsString(json) THEN delimited_make(json.v)
     ELSE IF json.type = "object" /\ HasMember(json, "delimiter")
               /\ IsString(json.v.delimiter)
       THEN delimited_make(json.v.delimiter.v)
     ELSE NoAnalyzer
\* delim_buf_: the local copy of a delimiter that is not null
delim_buf(delim) == IF delim.null THEN <<>> ELSE delim.tail
\* delimited_token_stream.cpp: make_json_config(delimiter, definition)
delimited_make_json_config(delimiter) ==
  JText(<<Member("delimiter", JString(delimiter))>>)
\* delimited_token_stream.cpp: make_text_config(delimiter, definition)
delimited_make_text_config(delimiter) == delimiter

\* irs::locale_utils::name(locale_)
locale_name(locale) == locale
\* text_token_stemming_stream.cpp: make_text(args)
stemming_make_text(args) == Made(stemming_ctor(args).locale_)
\* text_token_stemming_stream.cpp: make_json(args)
stemming_make_json(args) ==
  LET json == Document(args)
  IN IF json.type = "error" THEN NoAnalyzer
     ELSE IF IsString(json) THEN stemming_make_text(json.v)
     ELSE IF json.type = "object" /\ HasMember(json, "locale")
               /\ IsString(json.v.locale)
       THEN stemming_make_text(json.v.locale.v)
     ELSE NoAnalyzer
\* text_token_stemming_stream.cpp: make_json_config(locale, definition)
stemming_make_json_config(locale) == JText(<<Member("locale", JString(locale))>>)
\* text_token_stemming_stream.cpp: make_text_config(locale, definition)
stemming_make_text_config(locale) == locale

\* the orders in which the words of a std::unordered_set may be visited
Orders(set) ==
  {order \in [1..Cardinality(set) -> set] :
     \A i, j \in 1..Cardinality(set) : i # j => order[i] # order[j]}
\* case_convert_map, read from the value to the name
case_convert_name(case_convert) ==
  CASE case_convert = "LOWER" -> "lower"
    [] case_convert = "UPPER" -> "upper"
    [] OTHER -> "none"
\* text_token_stream.cpp: make_json_config(options, definition), the
\* definitions it may write
text_make_json_config(options) ==
  {JText(<<Member("locale", JString(options.locale)),
           Member("caseConvert", JString(case_convert_name(options.case_convert)))>>
         \o (IF options.explicit_stopwords # {} \/ options.explicit_stopwords_set
               THEN <<Member("stopwords",
                             JArray([i \in DOMAIN order |-> JString(order[i])]))>>
             ELSE <<>>)
         \o <<Member("noAccent", JBool(options.no_accent)),
              Member("noStem", JBool(options.no_stem))>>
         \o (IF options.stopwordsPath = <<>> \/ options.stopwordsPath[1] # NUL
               THEN <<Member("stopwordsPath", JString(options.stopwordsPath))>>
             ELSE <<>>)) :
     order \in Orders(options.explicit_stopwords)}
\* text_token_stream.cpp: make_text_config(options, definition)
text_make_text_config(options) == options.locale

\* construct(cache_key, options, stopwords) on the cache `map`: the analyzer
\* returned and the cache left
text_construct(cache_key, options, stopwords, map) ==
  LET emplaced == try_emplace(map, cache_key, options, stopwords)
      e == CHOOSE x \in emplaced : x.key_ = cache_key
  IN [analyzer |-> Made([options |-> e.options, stopwords |-> e.stopwords_]),
      map |-> emplaced]
\* build_stopwords and what its callers do with what it returns
text_build(cache_key, options, map, readable) ==
  LET b == build_stopwords(options, readable)
  IN IF b.ret THEN text_construct(cache_key, options, b.stopwords, map)
     ELSE [analyzer |-> NoAnalyzer, map |-> map]
\* text_token_stream.cpp: make_text(args), that is construct(cache_key)
text_make_text(args, map, readable) ==
  IF \E e \in map : e.key_ = args
    THEN LET e == CHOOSE x \in map : x.key_ = args
         IN [analyzer |-> Made([options |-> e.options, stopwords |-> e.stopwords_]),
             map |-> map]
  ELSE text_build(args, [default_options EXCEPT !.locale = args], map, readable)
\* text_token_stream.cpp: make_json(args)
text_make_json(args, map, readable) ==
  LET d == dispatch(Document(args))
  IN IF d.to = "build" THEN text_build(args, d.options, map, readable)
     ELSE IF d.to = "find" THEN text_make_text(args, map, readable)
     ELSE [analyzer |-> NoAnalyzer, map |-> map]

\* the directory build_stopwords reads for a definition, if it reads one
text_directory(format, args) ==
  LET options == IF format = "text" THEN [default_options EXCEPT !.locale = args]
                 ELSE dispatch(Document(args)).options
      reads == format = "text" \/ dispatch(Document(args)).to = "build"
  IN IF reads /\ stopwords_directory(options).load
       THEN {<<stopwords_directory(options).by, stopwords_directory(options).path,
               language(options.locale)>>}
     ELSE {}

\* to_string(format, definition) of the analyzer under test: the definitions
\* it may write
to_string(format) ==
  CASE kind = "delimited" ->
         IF format = "json" THEN {delimited_make_json_config(delim_buf(dts.delim_))}
         ELSE {Str(delimited_make_text_config(delim_buf(dts.delim_)))}
    [] kind = "stem" ->
         IF format = "json" THEN {stemming_make_json_config(locale_name(tss.locale_))}
         ELSE {stemming_make_text_config(locale_name(tss.locale_))}
    [] OTHER ->
         IF format = "json" THEN text_make_json_config(tts.options)
         ELSE {text_make_text_config(tts.options)}
\* to_string of an analyzer that a constructor returned
to_string_of(analyzer, format) ==
  CASE kind = "delimited" ->
         IF format = "json" THEN {delimited_make_json_config(delim_buf(analyzer.config))}
         ELSE {Str(delimited_make_text_config(delim_buf(analyzer.config)))}
    [] kind = "stem" ->
         IF format = "json" THEN {stemming_make_json_config(locale_name(analyzer.config))}
         ELSE {stemming_make_text_config(locale_name(analyzer.config))}
    [] OTHER ->
         IF format = "json" THEN text_make_json_config(analyzer.config.options)
         ELSE {text_make_text_config(analyzer.config.options)}

Formats == {"json", "text"}
\* definitions that no to_string wrote: JSON texts with a field missing or
\* of the wrong type, and well-formed ones
Required == IF kind = "delimited" THEN "delimiter" ELSE "locale"
RequiredValue == IF kind = "delimited" THEN JString(<<",">>) ELSE JString("en")
WrongFields ==
  <<Member("caseConvert", JNumber), Member("caseConvert", JString("title")),
    Member("stopwords", JString(<<"a">>)),
    Member("stopwords", JArray(<<JString(<<"a">>), JNumber>>)),
    Member("stopwordsPath", JNumber),
    Member("noAccent", JString("true")), Member("noStem", JNumber)>>
RightFields ==
  <<Member("caseConvert", JString("lower")),
    Member("stopwords", JArray(<<JString(<<"a">>)>>)),
    Member("stopwordsPath", JString(<<"p">>)), Member("noAccent", JBool(TRUE))>>
Locale == Member("locale", JString("en"))
WrittenByHand ==
  <<JError, JNumber, JText(<<>>), JText(<<Member(Required, JNumber)>>),
    JText(<<Member("other", JString("en"))>>),
    JText(<<Member(Required, RequiredValue)>>)>>
    \o (IF kind = "text"
          THEN [i \in 1..(Len(RightFields) * Len(WrongFields)) |->
                  JText(<<Locale, RightFields[((i - 1) % Len(RightFields)) + 1],
                          WrongFields[((i - 1) \div Len(RightFields)) + 1]>>)]
               \o [i \in 1..Len(RightFields) |-> JText(<<Locale, RightFields[i]>>)]
               \o [i \in 1..Len(WrongFields) |-> JText(<<WrongFields[i]>>)]
        ELSE <<RequiredValue>>)

\* the analyzer under test writes its definition
WriteDefinition ==
  /\ conf.stage = "none"
  /\ \E format \in Formats : \E definition \in to_string(format) :
       conf' = [stage |-> "written", format |-> format, definition |-> definition,
                own |-> TRUE]
  /\ UNCHANGED <<cached_state_by_key, pc, frame, result, analyzers, loads, calls,
                 env, consulted, sets, bitsets>>
  /\ UNCHANGED <<kind, dts, tss, tts, resets, reset_ret, emitted, input, call>>

\* a caller hands in a JSON definition of its own
WriteByHand ==
  /\ conf.stage = "none"
  /\ \E i \in DOMAIN WrittenByHand :
       conf' = [stage |-> "written", format |-> "json",
                definition |-> WrittenByHand[i], own |-> FALSE]
  /\ UNCHANGED <<cached_state_by_key, pc, frame, result, analyzers, loads, calls,
                 env, consulted, sets, bitsets>>
  /\ UNCHANGED <<kind, dts, tss, tts, resets, reset_ret, emitted, input, call>>

\* the registered make_json or make_text is called with the definition
Make ==
  /\ conf.stage = "written"
  /\ LET args == conf.definition
         made(analyzer) ==
           conf' = [stage |-> "made", format |-> conf.format, definition |-> args,
                    own |-> conf.own, rebuilt |-> analyzer]
     IN CASE kind = "delimited" ->
               /\ made(IF conf.format = "json" THEN delimited_make_json(args)
                       ELSE delimited_make_text(args))
               /\ UNCHANGED <<cached_state_by_key, consulted>>
          [] kind = "stem" ->
               /\ made(IF conf.format = "json" THEN stemming_make_json(args)
                       ELSE stemming_make_text(args))
               /\ UNCHANGED <<cached_state_by_key, consulted>>
          [] OTHER ->
               \E readable \in BOOLEAN :
                 LET r == IF conf.format = "json"
                            THEN text_make_json(args, cached_state_by_key, readable)
                          ELSE text_make_text(args, cached_state_by_key, readable)
                 IN /\ made(r.analyzer)
                    /\ cached_state_by_key' = r.map
                    /\ consulted' =
                         consulted (+) SetToBag(text_directory(conf.format, args))
  /\ UNCHANGED <<pc, frame, result, analyzers, loads, calls, env, sets, bitsets>>
  /\ UNCHANGED <<kind, dts, tss, tts, resets, reset_ret, emitted, input, call>>

\* the analyzer made from the definition writes its definition
WriteAgain ==
  /\ conf.stage = "made"
  /\ ~conf.rebuilt.null
  /\ \E definition \in to_string_of(conf.rebuilt, conf.format) :
       conf' = [stage |-> "rewritten", format |-> conf.format,
                definition |-> conf.definition, own |-> conf.own,
                rebuilt |-> conf.rebuilt, definition2 |-> definition]
  /\ UNCHANGED <<cached_state_by_key, pc, frame, result, analyzers, loads, calls,
                 env, consulted, sets, bitsets>>
  /\ UNCHANGED <<kind, dts, tss, tts, resets, reset_ret, emitted, input, call>>

(***************************************************************************)
(* arangodb::HashSet as tests/Basics/HashSetTest.cpp uses it.  A set is    *)
(* [table, num_filled]: the table that holds its values and the number of  *)
(* values it counts; `heap` maps each table to the values stored in it.    *)
(***************************************************************************)
MaxValue == 2
HashValues == 0..MaxValue
Tables == 1..3
\* HashSet<T>(): an empty set on table t
hs_ctor(t) == [table |-> t, num_filled |-> 0]
hs_size(o) == o.num_filled
hs_empty(o) == o.num_filled = 0
\* find(v) != end()
hs_find(heap, o, v) == v \in heap[o.table]
\* an insert that counts a value it already holds
hs_insert_counting(heap, o, v) ==
  [heap |-> [heap EXCEPT ![o.table] = @ \cup {v}],
   set |-> [o EXCEPT !.num_filled = @ + 1], second |-> ~hs_find(heap, o, v)]
\* insert(v), emplace(v): [heap, set, second]
hs_insert(heap, o, v) ==
  IF hs_find(heap, o, v) THEN [heap |-> heap, set |-> o, second |-> FALSE]
  ELSE [heap |-> [heap EXCEPT ![o.table] = @ \cup {v}],
        set |-> [o EXCEPT !.num_filled = @ + 1], second |-> TRUE]
\* erase(v): [heap, set, count]
hs_erase(heap, o, v) ==
  IF hs_find(heap, o, v)
    THEN [heap |-> [heap EXCEPT ![o.table] = @ \ {v}],
          set |-> [o EXCEPT !.num_filled = @ - 1], count |-> 1]
  ELSE [heap |-> heap, set |-> o, count |-> 0]
\* clear()
hs_clear(heap, o) ==
  [heap |-> [heap EXCEPT ![o.table] = {}], set |-> [o EXCEPT !.num_filled = 0]]
\* reserve(n) that needs more buckets: the values move to table t
hs_reserve(heap, o, t) ==
  [heap |-> [heap EXCEPT ![t] = heap[o.table], ![o.table] = {}],
   set |-> [o EXCEPT !.table = t]]
\* a copy that refers to the table of the original
hs_copy_shallow(heap, o, t) == [heap |-> heap, set |-> o]
\* HashSet(HashSet const&), operator=(HashSet const&): the copy, on table t
hs_copy(heap, o, t) ==
  [heap |-> [heap EXCEPT ![t] = heap[o.table]],
   set |-> [table |-> t, num_filled |-> o.num_filled]]
\* HashSet(HashSet&&): the new set takes the table, the source is left
\* empty on table t
hs_move(heap, o, t) ==
  [heap |-> [heap EXCEPT ![t] = {}], set |-> o, source |-> hs_ctor(t)]

\* the tables no set refers to
FreeTables ==
  Tables \ ({sets.values.table} \cup (IF sets.copied THEN {sets.copy.table} ELSE {}))
\* a statement of a test has changed `values` and returned
Tested(r, op, arg, value) ==
  /\ sets' = [sets EXCEPT !.heap = r.heap, !.values = r.set,
                          !.ret = [op |-> op, arg |-> arg, value |-> value]]
  /\ UNCHANGED <<cached_state_by_key, pc, frame, result, analyzers, loads, calls,
                 env, consulted, conf, bitsets>>
  /\ UNCHANGED <<kind, dts, tss, tts, resets, reset_ret, emitted, input, call>>
SetsTested == sets.stage = "tested"

\* values.insert(v)
HsInsert ==
  /\ SetsTested
  /\ \E v \in HashValues :
       Tested(hs_insert(sets.heap, sets.values, v), "insert", v, 0)
\* auto res = values.emplace(v)
HsEmplace ==
  /\ SetsTested
  /\ \E v \in HashValues :
       LET r == hs_insert(sets.heap, sets.values, v)
       IN Tested(r, "emplace", v, IF r.second THEN 1 ELSE 0)
\* values.erase(v)
HsErase ==
  /\ SetsTested
  /\ \E v \in HashValues :
       LET r == hs_erase(sets.heap, sets.values, v)
       IN Tested(r, "erase", v, r.count)
\* values.clear()
HsClear ==
  /\ SetsTested
  /\ Tested(hs_clear(sets.heap, sets.values), "clear", 0, 0)
\* values.reserve(n): n may or may not exceed the buckets at hand
HsReserve ==
  /\ SetsTested
  /\ \/ Tested([heap |-> sets.heap, set |-> sets.values], "reserve", 0, 0)
     \/ \E t \in FreeTables :
          Tested(hs_reserve(sets.heap, sets.values, t), "reserve", 1, 0)
\* HashSet<int> copy(values);  HashSet<int> copy = values;
HsCopy ==
  /\ SetsTested
  /\ ~sets.copied
  /\ \E t \in FreeTables :
       LET r == hs_copy(sets.heap, sets.values, t)
       IN sets' = [sets EXCEPT !.heap = r.heap, !.copy = r.set, !.copied = TRUE,
                               !.ret = [op |-> "copy", arg |-> 0, value |-> 0]]
  /\ UNCHANGED <<cached_state_by_key, pc, frame, result, analyzers, loads, calls,
                 env, consulted, conf, bitsets>>
  /\ UNCHANGED <<kind, dts, tss, tts, resets, reset_ret, emitted, input, call>>
\* HashSet<int> copy(std::move(values));
HsMove ==
  /\ SetsTested
  /\ ~sets.copied
  /\ \E t \in FreeTables :
       LET r == hs_move(sets.heap, sets.values, t)
       IN sets' = [sets EXCEPT !.heap = r.heap, !.copy = r.set, !.copied = TRUE,
                               !.values = r.source,
                               !.ret = [op |-> "move", arg |-> 0, value |-> 0]]
  /\ UNCHANGED <<cached_state_by_key, pc, frame, result, analyzers, loads, calls,
                 env, consulted, conf, bitsets>>
  /\ UNCHANGED <<kind, dts, tss, tts, resets, reset_ret, emitted, input, call>>

\* the analyzers, each constructed directly
Init ==
  /\ kind \in Kinds
  /\ \E d \in Delims : dts = delimited_ctor(IF kind = "delimited" THEN d ELSE NIL)
  /\ \E l \in Locales : tss = stemming_ctor(IF kind = "stem" THEN l ELSE "en")
  /\ \E o \in TextOptions, w \in TextStopwords :
       tts = IF kind = "text" THEN text_ctor(0, o, w) ELSE NoStream
  /\ resets = 0
  /\ reset_ret = FALSE
  /\ emitted = <<>>
  /\ input = NIL
  /\ call = Returned("ctor", TRUE)
  /\ InitCache

Next ==
  \/ DelimitedReset \/ DelimitedNext
  \/ StemmingReset \/ StemmingNext
  \/ TextReset \/ TextNext \/ TextNextNull

Spec == Init /\ [][Next]_vars

\* the delimited analyzer alone
InitDelimited == Init /\ kind = "delimited"
NextDelimited == DelimitedReset \/ DelimitedNext
SpecDelimited == InitDelimited /\ [][NextDelimited]_vars

\* the stemming-only analyzer alone
InitStemming == Init /\ kind = "stem"
NextStemming == StemmingReset \/ StemmingNext
SpecStemming == InitStemming /\ [][NextStemming]_vars

\* the linguistic analyzer alone, on options and stopwords the caller owns
InitText == Init /\ kind = "text"
NextText == TextReset \/ TextNext \/ TextNextNull
SpecText == InitText /\ [][NextText]_vars

\* linguistic analyzers obtained through the cache by concurrent threads
InitConstruct ==
  /\ kind = "text"
  /\ dts = delimited_ctor(NIL)
  /\ tss = stemming_ctor("en")
  /\ tts = NoStream
  /\ resets = 0
  /\ reset_ret = FALSE
  /\ emitted = <<>>
  /\ input = NIL
  /\ call = Returned("ctor", TRUE)
  /\ InitCache
NextConstruct ==
  \/ \E t \in Threads :
       Call(t) \/ Dispatch(t) \/ Lookup(t) \/ BuildStopwords(t) \/ Emplace(t)
  \/ Use
  \/ TextReset \/ TextNext \/ TextNextNull
SpecConstruct == InitConstruct /\ [][NextConstruct]_vars

\* one thread builds analyzers from JSON configurations, under each value
\* of the environment variable
InitStopwords ==
  /\ kind = "text"
  /\ dts = delimited_ctor(NIL)
  /\ tss = stemming_ctor("en")
  /\ tts = NoStream
  /\ resets = 0
  /\ reset_ret = FALSE
  /\ emitted = <<>>
  /\ input = NIL
  /\ call = Returned("ctor", TRUE)
  /\ EmptyCache
  /\ env \in Envs
  /\ conf = NoConf
  /\ sets = NoSets
  /\ bitsets = NoBitsets
NextStopwords == MakeJson(1) \/ Dispatch(1) \/ BuildStopwords(1) \/ Emplace(1)
SpecStopwords == InitStopwords /\ [][NextStopwords]_vars

(***************************************************************************)
(* The cache: properties                                                   *)
(***************************************************************************)
\* thread t's last construction returned an analyzer for key k
Got(t, k) == pc[t] = "idle" /\ ~result[t].null /\ result[t].key = k
\* a key that every format hands to construct(cache_key) or rejects
LookedUp(k) == ParseJson(k).type # "object"

\* C1: when the two threads have each constructed one analyzer from the same
\* configuration string, a string construct(cache_key) looks up, and both
\* got an analyzer, the stopword directory of that string was loaded exactly
\* once in total
C1_OneLoad ==
  \A k \in Configs :
    (calls = 2 /\ LookedUp(k) /\ \A t \in Threads : Got(t, k)) => loads[k] = 1

\* C2: the cache holds at most one entry per key, and every analyzer ever
\* returned for a key, the one of the first insert included, is bound to the
\* entry the cache holds for that key
C2_OneEntryPerKey ==
  /\ \A e1, e2 \in cached_state_by_key : e1.key_ = e2.key_ => e1 = e2
  /\ \A a \in analyzers :
       \E e \in cached_state_by_key : e.key_ = a.key /\ e.id = a.entry
  /\ \A t \in Threads :
       ~result[t].null =>
         [key |-> result[t].key, entry |-> result[t].entry] \in analyzers

\* both threads built the stopwords of one key, one insert lost, and both
\* analyzers are bound to the entry of the other
C2_Witness ==
  /\ calls = 2
  /\ \E k \in Configs :
       /\ \A t \in Threads : Got(t, k)
       /\ loads[k] = 2
  /\ result[1].entry = result[2].entry

\* C3: no step removes a cache entry or changes its key, options or
\* stopwords
C3_EntriesKept ==
  [][\A e \in cached_state_by_key : e \in cached_state_by_key']_vars

\* with two keys cached, a construction with a cached key has failed and an
\* analyzer bound to an entry has emitted a token
C3_Witness ==
  /\ Cardinality(cached_state_by_key) >= 2
  /\ \E t \in Threads : result[t].null /\ Find(result[t].key) # {}
  /\ tts.entry # 0 /\ call.op = "next" /\ call.ret

\* thread t's construction returns nullptr in this step
Fails(t) == pc[t] # "idle" /\ pc'[t] = "idle" /\ result'[t].null
\* thread t calls build_stopwords for a directory that does not exist
LoadsMissing(t) ==
  /\ pc[t] = "build" /\ pc'[t] # "build"
  /\ stopwords_directory(frame[t].options).load
  /\ ~can_load(frame[t].options)
\* thread t's make_json reads a string that is not JSON
Malformed(t) ==
  /\ pc[t] = "called" /\ pc'[t] # "called"
  /\ frame[t].format = "json" /\ ParseJson(frame[t].key).type = "error"

\* C4: a construction whose configuration is malformed or whose stopword
\* directory is missing returns nullptr; a step that returns nullptr leaves
\* the cache and the analyzers returned so far as they were; and the lookup
\* of a key that has no entry goes on to build, whatever failed before
C4_FailureKeepsCache ==
  [][\A t \in Threads :
       /\ (LoadsMissing(t) \/ Malformed(t)) => Fails(t)
       /\ Fails(t) => /\ cached_state_by_key' = cached_state_by_key
                      /\ analyzers' = analyzers
       /\ (pc[t] = "find" /\ pc'[t] # "find" /\ Find(frame[t].key) = {})
            => pc'[t] = "build"]_vars

\* with another key cached, the stopwords of a key were loaded twice, its
\* last construction failed and the key has no entry
C4_Witness ==
  /\ cached_state_by_key # {}
  /\ \E t \in Threads :
       /\ pc[t] = "idle" /\ result[t].null
       /\ result[t].key \in Configs
       /\ loads[result[t].key] >= 2
       /\ Find(result[t].key) = {}

\* C5: a construction that found its configuration string cached when it
\* was called does not load a stopword directory
C5_NoLoadOnHit ==
  \A t \in Threads :
    (frame[t].hit /\ pc[t] = "emplace")
      => ~stopwords_directory(frame[t].options).load

(***************************************************************************)
(* All analyzers: properties                                               *)
(***************************************************************************)
\* C6: a next() made after a next() that returned false, with no reset() in
\* between, returns false and leaves the analyzer (term, offsets, increment,
\* payload, remaining input) as it was
C6_NextStaysFalse ==
  [][(StreamEnded /\ call'.op = "next")
       => (~call'.ret /\ dts' = dts /\ tss' = tss /\ tts' = tts
           /\ emitted' = emitted)]_vars

\* next() was called again after the delimited analyzer rejected a token
\* whose end offset does not fit 32 bits
C6_Witness ==
  /\ kind = "delimited" /\ call.again /\ ~call.ret
  /\ ~dts.data_.null
  /\ Len(emitted) > 0

\* C7: after a reset() of the stemming-only or linguistic analyzer returned
\* false, no token is emitted and a next() whose behaviour is defined
\* returns false
C7_NoTokenAfterFailedReset ==
  (kind \in {"stem", "text"} /\ resets > 0 /\ ~reset_ret)
    => /\ emitted = <<>>
       /\ (call.op = "next" /\ ~call.ub) => ~call.ret

(***************************************************************************)
(* Delimited analyzer: properties                                          *)
(***************************************************************************)
InRange32(b) == Le(Size(b), UINT32_MAX)

\* a quoted field: opening quote, content whose quotes all come in pairs,
\* closing quote as the last byte
RECURSIVE QuotesDoubled(_)
QuotesDoubled(c) ==
  IF c = <<>> THEN TRUE
  ELSE IF c[1] # QUOTE THEN QuotesDoubled(Tail(c))
  ELSE Len(c) >= 2 /\ c[2] = QUOTE /\ QuotesDoubled(Tail(Tail(c)))
RECURSIVE Undoubled(_)
Undoubled(c) ==
  IF c = <<>> THEN <<>>
  ELSE IF c[1] # QUOTE THEN <<c[1]>> \o Undoubled(Tail(c))
  ELSE <<QUOTE>> \o Undoubled(Tail(Tail(c)))
Content(raw) == SubSeq(raw.tail, 2, Len(raw.tail) - 1)
QuotedField(raw) ==
  /\ raw.pad = Num(0)
  /\ Len(raw.tail) >= 2
  /\ raw.tail[1] = QUOTE
  /\ raw.tail[Len(raw.tail)] = QUOTE
  /\ QuotesDoubled(Content(raw))

RECURSIVE Join(_, _)
Join(toks, delim) ==
  IF Len(toks) = 0 THEN Str(<<>>)
  ELSE IF Len(toks) = 1 THEN toks[1].term
  ELSE Concat(Concat(Join(SubSeq(toks, 1, Len(toks) - 1), delim), delim),
              toks[Len(toks)].term)

NoQuotedField == \A i \in 1..Len(emitted) : ~QuotedField(emitted[i].payload)

\* C8 as claimed: for every input and non-empty delimiter, when no emitted
\* token was a quoted field, the terms emitted up to the first false next(),
\* joined with the delimiter, are the input bytes
C8_JoinAnyInput ==
  (kind = "delimited" /\ Size(dts.delim_) # Num(0) /\ StreamEnded /\ NoQuotedField)
    => SameBytes(Join(emitted, dts.delim_), input)

\* C8 amended: the same for every input of at most 2^32 - 1 bytes
C8_JoinInRange ==
  (kind = "delimited" /\ Size(dts.delim_) # Num(0) /\ StreamEnded /\ NoQuotedField
     /\ InRange32(input))
    => SameBytes(Join(emitted, dts.delim_), input)

\* an input that starts and ends with a two-byte delimiter was split
C8_Witness ==
  /\ kind = "delimited" /\ Len(dts.delim_.tail) = 2 /\ StreamEnded /\ NoQuotedField
  /\ InRange32(input)
  /\ Len(emitted) = 3
  /\ emitted[1].term = Str(<<>>) /\ emitted[3].term = Str(<<>>)

\* C9: for an input of at most 2^32 - 1 bytes the first token starts at 0,
\* every later token starts delimiter-length after the end of the previous
\* one, every span holds the token's raw bytes, and the last token ends at
\* the input length
C9_OffsetsTile ==
  (kind = "delimited" /\ InRange32(input)) =>
    /\ \A i \in 1..Len(emitted) :
         /\ emitted[i].start =
              (IF i = 1 THEN Num(0)
               ELSE Add(emitted[i - 1].end, Size(dts.delim_)))
         /\ Le(emitted[i].start, emitted[i].end)
         /\ Le(emitted[i].end, Size(input))
         /\ SameBytes(Slice(input, emitted[i].start, emitted[i].end),
                      emitted[i].payload)
    /\ (StreamEnded /\ Len(emitted) > 0)
         => emitted[Len(emitted)].end = Size(input)

\* a long input was split at a two-byte delimiter into two tokens
C9_Witness ==
  /\ kind = "delimited" /\ InRange32(input) /\ input.pad # Num(0)
  /\ Len(dts.delim_.tail) = 2 /\ StreamEnded /\ Len(emitted) = 2
  /\ emitted[2].start = Add(emitted[1].end, Num(2))

\* C10: with a delimiter configured, the term of a token whose raw bytes are
\* a quoted field is its content with doubled quotes undoubled, and the term
\* of every other token is its raw bytes
C10_TermOfToken ==
  (kind = "delimited" /\ ~dts.delim_.null) =>
    \A i \in 1..Len(emitted) :
      emitted[i].term =
        (IF QuotedField(emitted[i].payload)
           THEN Str(Undoubled(Content(emitted[i].payload)))
         ELSE emitted[i].payload)

\* a quoted field with a doubled quote and a field with bytes after the
\* closing quote were both emitted
C10_Witness ==
  /\ kind = "delimited" /\ ~dts.delim_.null
  /\ \E i \in 1..Len(emitted) :
       /\ QuotedField(emitted[i].payload)
       /\ emitted[i].term = Str(<<QUOTE>>)

\* C11: with an empty delimiter (not null), a non-null input yields exactly
\* one token, whose term is the whole input, and then next() returns false
C11_EmptyDelimiterOneToken ==
  (kind = "delimited" /\ ~dts.delim_.null /\ Size(dts.delim_) = Num(0)
     /\ ~input.null /\ StreamEnded)
    => /\ Len(emitted) = 1
       /\ SameBytes(emitted[1].term, input)

\* the byte positions in the input of the i-th token emitted: the first
\* token starts at 0, a later one delimiter-length after the previous end
RECURSIVE TrueStart(_, _, _), TrueEnd(_, _, _)
TrueStart(toks, delim, i) ==
  IF i = 1 THEN Num(0) ELSE Add(TrueEnd(toks, delim, i - 1), Size(delim))
TrueEnd(toks, delim, i) == Add(TrueStart(toks, delim, i), Size(toks[i].payload))

\* C12: the offsets of every token the delimited analyzer emits are the
\* token's byte positions in the input, never those positions modulo 2^32
C12_TrueOffsets ==
  kind = "delimited" =>
    \A i \in 1..Len(emitted) :
      /\ emitted[i].start = TrueStart(emitted, dts.delim_, i)
      /\ emitted[i].end = TrueEnd(emitted, dts.delim_, i)

\* C13: among the tokens emitted since the last reset(), of any analyzer,
\* each has start <= end, and neither its start nor its end is below that
\* of the token emitted before it
C13_OffsetsMonotone ==
  \A i \in 1..Len(emitted) :
    /\ Le(emitted[i].start, emitted[i].end)
    /\ i > 1 => /\ Le(emitted[i - 1].start, emitted[i].start)
                /\ Le(emitted[i - 1].end, emitted[i].end)

(***************************************************************************)
(* Stemming-only analyzer: properties                                      *)
(***************************************************************************)
\* C14: a reset() of the stemming-only analyzer that returns true arms one
\* token, whatever was consumed before; while the last reset() returned
\* true, a next() returns true exactly when no token was emitted since that
\* reset(), so one token is emitted per reset()
C14_OneTokenPerReset ==
  [][kind = "stem" =>
       /\ (call'.op = "reset" /\ call'.ret) => ~tss'.term_eof_
       /\ (call'.op = "next" /\ reset_ret)
            => /\ call'.ret <=> emitted = <<>>
               /\ Len(emitted') = 1]_vars

\* the second reset() has given its token and the next() after it
\* returned false twice
C14_Witness ==
  /\ kind = "stem" /\ resets = 2 /\ reset_ret
  /\ Len(emitted) = 1
  /\ call.op = "next" /\ ~call.ret /\ call.again

\* C15: after a reset(text) of the stemming-only analyzer that returned
\* true, the offsets are [0, len(text)), len(text) in bytes
C15_OffsetsWholeText ==
  (kind = "stem" /\ resets > 0 /\ reset_ret)
    => tss.offset_ = [start |-> Num(0), end |-> TextSize(input)]


(***************************************************************************)
(* The linguistic analyzer: which spans become tokens, and their terms     *)
(***************************************************************************)
\* the word boundaries of a text: its two ends and every change between
\* letters and other characters
IsBoundary(text, b) ==
  b = 0 \/ b = Len(text) \/ IsLetter(text[b]) # IsLetter(text[b + 1])
\* the spans between two successive boundaries that end in a letter
ContentSpans(text) ==
  {sp \in (0..Len(text)) \X (1..Len(text)) :
     /\ sp[1] < sp[2]
     /\ IsBoundary(text, sp[1]) /\ IsBoundary(text, sp[2])
     /\ \A m \in (sp[1] + 1)..(sp[2] - 1) : ~IsBoundary(text, m)
     /\ IsLetter(text[sp[2]])}
SpanWord(text, sp) == SubSeq(text, sp[1] + 1, sp[2])
\* normalize, case-convert, accent-strip as the options ask; `normalized`
\* tells whether the normalization took place
Pipeline(o, span, normalized) ==
  LET n == IF normalized THEN NormalizeWord(span) ELSE span
      c == IF o.case_convert = "LOWER" THEN LowerWord(n)
           ELSE IF o.case_convert = "UPPER" THEN UpperWord(n)
           ELSE n
  IN IF o.no_accent THEN NoAccentWord(c) ELSE c
\* the span a token reports
SpanOf(tok) == <<tok.start[2], tok.end[2]>>
EmittedSpans == {SpanOf(emitted[i]) : i \in 1..Len(emitted)}
\* the linguistic analyzer has been reset with success
TextReady == kind = "text" /\ resets > 0 /\ reset_ret
\* the tokens come in input order, one per span, and the spans passed over
\* are those of `skipped`, the spans emitted those outside `dropped`
TokensAre(dropped, skipped) ==
  /\ \A i \in 1..Len(emitted) :
       /\ emitted[i].start[1] = 0 /\ emitted[i].end[1] = 0
       /\ SpanOf(emitted[i]) \in ContentSpans(input.tail) \ dropped
       /\ i > 1 => emitted[i - 1].end[2] <= emitted[i].start[2]
  /\ \A sp \in ContentSpans(input.tail) \ EmittedSpans :
       (StreamEnded \/ \E i \in 1..Len(emitted) : sp[2] <= emitted[i].start[2])
         => sp \in skipped
StopSpans(normalized) ==
  {sp \in ContentSpans(input.tail) :
     Pipeline(tts.options, SpanWord(input.tail, sp), normalized) \in tts.stopwords}

Stems(o) == ~o.no_stem /\ sb_stemmer_new(language(o.locale))
\* the terms the transformed word `x` may become
TermsOf(o, x) == IF Stems(o) THEN {sb_stemmer_stem(x), x} ELSE {x}
\* the word of the span a token reports
WordOf(tok) == SpanWord(input.tail, SpanOf(tok))

Built(t) == pc[t] = "build" /\ pc'[t] # "build"
\* the options carry a stopwords path, possibly the empty string
PathOverride(o) == o.stopwordsPath # PathUnset
\* the options carry an explicit list of stopwords, possibly empty
ExplicitList(o) == o.explicit_stopwords # {} \/ o.explicit_stopwords_set
\* the directory a path names: the path itself if it starts at the root,
\* else the path under the current directory
DirectoryOf(path) == IF path # <<>> /\ path[1] = "/" THEN path ELSE <<"/">> \o path

\* C18: with an explicit stopwords list, empty or not, and no path override
\* the build reads no directory, succeeds, and the resolved set is exactly
\* the explicit list.
C18_ExplicitListOnly ==
  [][\A t \in Threads :
       (Built(t) /\ ExplicitList(frame[t].options) /\ ~PathOverride(frame[t].options))
         => /\ consulted' = consulted
            /\ loads' = loads
            /\ pc'[t] = "emplace"
            /\ frame'[t].stopwords = frame[t].options.explicit_stopwords]_vars
\* an explicit empty list has been resolved to no stopwords, with no
\* directory read, while the environment names a directory of stopwords
C18_Witness ==
  /\ pc[1] = "emplace" /\ frame[1].key = CfgNoWords
  /\ frame[1].options.explicit_stopwords_set /\ frame[1].options.explicit_stopwords = {}
  /\ frame[1].stopwords = {} /\ consulted = EmptyBag
  /\ env = [null |-> FALSE, path |-> <<"p">>]

\* the directory <path>/<language>/ of the options' path override
OverrideDirectory(o) == <<DirectoryOf(o.stopwordsPath), language(o.locale)>>

\* C19: with a path override, the empty string included, the build reads
\* <path>/<language>/ and nothing else; it either succeeds with the explicit
\* words and the words of that directory, or fails, returning no analyzer
\* and adding no cache entry; it fails when the directory does not exist.
C19_PathOverrideLoadsOrFails ==
  [][\A t \in Threads :
       (Built(t) /\ PathOverride(frame[t].options))
         => LET o == frame[t].options
                dir == OverrideDirectory(o)
            IN /\ consulted' = consulted (+) SetToBag({<<"path", dir[1], dir[2]>>})
               /\ \/ /\ dir \in Directories
                     /\ pc'[t] = "emplace"
                     /\ frame'[t].stopwords =
                          o.explicit_stopwords \cup WordsIn(dir[1], dir[2])
                  \/ /\ pc'[t] = "idle"
                     /\ result'[t].null
                     /\ analyzers' = analyzers
                     /\ cached_state_by_key' = cached_state_by_key]_vars
\* a build with explicit words and a path that names no directory has
\* failed, with the cache left empty and only that directory read, while
\* the environment names a directory of stopwords
C19_Witness ==
  /\ pc[1] = "idle" /\ result[1].null /\ result[1].key = CfgWordsPathMissing
  /\ cached_state_by_key = {} /\ analyzers = {}
  /\ consulted = SetToBag({<<"path", <<"/", "q">>, "en">>})
  /\ env = [null |-> FALSE, path |-> <<"p">>]
\* a build whose path is the empty string has read the current directory
C19_WitnessEmptyPath ==
  /\ pc[1] = "emplace" /\ frame[1].key = CfgPathEmpty
  /\ frame[1].stopwords = WordsIn(CWD, "en")
  /\ consulted = SetToBag({<<"path", CWD, "en">>})
  /\ env = [null |-> FALSE, path |-> <<"p">>]

\* the default directory: <value of the environment variable, or the
\* current directory when it is not set>/<language>/
DefaultDirectory(o) ==
  <<IF env.null THEN <<"/">> ELSE DirectoryOf(env.path), language(o.locale)>>
\* the default directory is what a build falls back on
FallsBack(o) == ~PathOverride(o) /\ o.explicit_stopwords = {} /\ ~o.explicit_stopwords_set

\* C20: a build reads the default directory, as such, if and only if no
\* path override is set, the explicit list is empty and it was not marked
\* as supplied; it then reads nothing else.
C20_DefaultDirectoryIff ==
  [][\A t \in Threads :
       Built(t)
         => LET o == frame[t].options
                d == DefaultDirectory(o)
            IN IF FallsBack(o)
                 THEN consulted' = consulted (+) SetToBag({<<"default", d[1], d[2]>>})
               ELSE \A c \in BagToSet(consulted') :
                      c[1] = "default" => CopiesIn(c, consulted') = CopiesIn(c, consulted)]_vars
\* a build without stopwords options has read the directory the environment
\* names and resolved to its words
C20_Witness ==
  /\ pc[1] = "emplace" /\ frame[1].key = CfgLocale
  /\ env = [null |-> FALSE, path |-> <<"p">>]
  /\ consulted = SetToBag({<<"default", <<"/", "p">>, "en">>})
  /\ frame[1].stopwords = WordsIn(<<"/", "p">>, "en")


(***************************************************************************)
(* Definitions: an analyzer constructed directly writes its definition, a  *)
(* constructor is called with it or with a JSON text written by hand, and  *)
(* the analyzer it returns writes its definition in turn                   *)
(***************************************************************************)
\* a delimiter that holds a zero byte
ZeroDelim == Str(<<",", NUL>>)
\* options of linguistic analyzers: those of an analyzer made from a bare
\* JSON string, and the explicit stopwords and stopwordsPath of the others
WordLists ==
  {[words |-> {}, set |-> FALSE], [words |-> {}, set |-> TRUE],
   [words |-> {<<"a">>}, set |-> TRUE], [words |-> {<<"a">>}, set |-> FALSE],
   [words |-> {<<"a">>, <<"b">>}, set |-> TRUE]}
ConfigOptions ==
  {[default_options EXCEPT !.locale = "en", !.case_convert = c, !.no_accent = a,
                           !.explicit_stopwords = w.words,
                           !.explicit_stopwords_set = w.set,
                           !.stopwordsPath = p] :
     c \in CaseConverts, a \in BOOLEAN, w \in WordLists,
     p \in {PathUnset, <<>>, <<"p">>}}
  \cup {[default_options EXCEPT !.locale = CfgString],
        [default_options EXCEPT !.locale = "en", !.no_stem = TRUE]}
InitConfig ==
  /\ InitCache
  /\ kind \in Kinds
  /\ \E d \in Delims \cup {ZeroDelim} :
       dts = delimited_ctor(IF kind = "delimited" THEN d ELSE NIL)
  /\ \E l \in Locales : tss = stemming_ctor(IF kind = "stem" THEN l ELSE "en")
  /\ \E o \in ConfigOptions :
       tts = IF kind = "text"
               THEN text_ctor(0, o, IF can_load(o) THEN built_stopwords(o)
                                    ELSE o.explicit_stopwords)
             ELSE NoStream
  /\ resets = 0
  /\ reset_ret = FALSE
  /\ emitted = <<>>
  /\ input = NIL
  /\ call = Returned("ctor", TRUE)
NextConfig == WriteDefinition \/ WriteByHand \/ Make \/ WriteAgain
SpecConfig == InitConfig /\ [][NextConfig]_vars


\* the value of the first member `name` of a JSON object text, if there is one
Field(def, name) ==
  {def.v[i].value : i \in {j \in DOMAIN def.v :
                             /\ def.v[j].name = name
                             /\ \A k \in 1..(j - 1) : def.v[k].name # name}}
NotA(def, name, type) == \E f \in Field(def, name) : f.type # type
\* a JSON definition that is malformed, lacks the required field or has a
\* field of a wrong type or value
InvalidDefinition(def) ==
  \/ def.type \notin {"string", "object"}
  \/ /\ def.type = "object"
     /\ Field(def, Required) = {} \/ NotA(def, Required, "string")
  \/ /\ def.type = "object"
     /\ kind = "text"
     /\ \/ NotA(def, "caseConvert", "string")
        \/ \E f \in Field(def, "caseConvert") :
             f.type = "string" /\ f.v \notin {"lower", "none", "upper"}
        \/ NotA(def, "stopwords", "array")
        \/ \E f \in Field(def, "stopwords") :
             f.type = "array" /\ \E i \in DOMAIN f.v : f.v[i].type # "string"
        \/ NotA(def, "stopwordsPath", "string")
        \/ NotA(def, "noAccent", "bool")
        \/ NotA(def, "noStem", "bool")

\* C21: make_json of any of the three analyzers, called with a text that is
\* not JSON, that lacks the required field (delimiter / locale) or holds it
\* with a value that is no string, or, for the linguistic analyzer, that
\* holds a caseConvert that is no string or no known name, a stopwords that
\* is no array or has an element that is no string, a stopwordsPath that is
\* no string, or a noAccent or noStem that is no boolean, returns null and
\* leaves the cache as it was.
C21_InvalidDefinitionMakesNothing ==
  [][(/\ conf.stage = "written"
      /\ conf'.stage = "made"
      /\ conf.format = "json"
      /\ InvalidDefinition(conf.definition))
       => /\ conf'.rebuilt.null
          /\ cached_state_by_key' = cached_state_by_key]_vars
\* make_json of the linguistic analyzer has returned null for an object
\* whose locale and first field are right and whose last field is wrong
C21_Witness ==
  /\ kind = "text"
  /\ conf.stage = "made"
  /\ conf.format = "json"
  /\ conf.definition.type = "object"
  /\ Len(conf.definition.v) = 3
  /\ ~NotA(conf.definition, "locale", "string")
  /\ InvalidDefinition(conf.definition)
  /\ conf.rebuilt.null
  /\ cached_state_by_key = {}


\* the linguistic analyzer under test wrote its JSON definition, make_json
\* returned an analyzer for it and that analyzer wrote its own
RoundTrip ==
  kind = "text" /\ conf.stage = "rewritten" /\ conf.format = "json" /\ conf.own

\* C22: linguistic analyzer: the JSON definition written by the analyzer
\* that make_json returns for the JSON definition of an analyzer is that
\* same definition, byte for byte, and its options (locale, case_convert,
\* no_accent, no_stem, explicit stopwords and their flag, stopwordsPath) are
\* those of the first analyzer.
C22_RoundTripIdentical ==
  RoundTrip => /\ conf.definition2 = conf.definition
               /\ conf.rebuilt.config.options = tts.options


\* the tokens an analyzer emits for an input: reset(data), then next() until
\* it returns false, at most n times
RECURSIVE DelimitedRest(_, _)
DelimitedRest(s, n) ==
  LET r == delimited_next(s)
  IN IF n = 0 \/ ~r.ret THEN <<>>
     ELSE <<Token(r.s.term_, r.s.payload_, r.s.offset_, r.s.inc_)>>
            \o DelimitedRest(r.s, n - 1)
DelimitedTokens(delim, data) ==
  DelimitedRest(delimited_reset(delimited_ctor(delim), data), Len(data.tail) + 1)
StemmingTokens(locale, data) ==
  LET r == stemming_reset(stemming_ctor(locale), data)
      n == stemming_next(r.s)
  IN IF r.ret /\ n.ret
       THEN <<Token(n.s.term_, n.s.payload_, n.s.offset_, n.s.inc_)>>
     ELSE <<>>
\* the library calls made for a text all succeed
AllSucceed(data) ==
  [i \in 1..Len(data.tail) |-> [normalized |-> TRUE, stemmed |-> TRUE]]
RECURSIVE TextRest(_, _, _)
TextRest(s, icu, n) ==
  LET r == text_next(s, icu)
  IN IF n = 0 \/ ~r.ret THEN <<>>
     ELSE <<Token(r.s.term_, NIL, r.s.offs_, r.s.inc_)>> \o TextRest(r.s, icu, n - 1)
TextTokens(options, stopwords, data) ==
  LET r == text_reset(text_ctor(0, options, stopwords), data, TRUE, TRUE, TRUE)
  IN IF r.ret THEN TextRest(r.s, AllSucceed(data), Len(data.tail)) ELSE <<>>

\* inputs that tell the delimiters, and the options, from one another
ProbeBytes == {Str(<<"a">>), Str(<<"a", ",", "a">>), Str(<<"a", ",", NUL, "a">>)}
ProbeTexts == {Str(<<"A">>), Str(<<"a'", SPACE, "a">>), Str(<<"A", "a">>)}
\* the analyzer a constructor returned emits, for each input, the tokens
\* that the analyzer under test emits
SameTokens(rebuilt) ==
  CASE kind = "delimited" ->
         \A data \in ProbeBytes :
           DelimitedTokens(rebuilt.config, data) = DelimitedTokens(dts.delim_, data)
    [] kind = "stem" ->
         \A data \in ProbeTexts :
           StemmingTokens(rebuilt.config, data) = StemmingTokens(tss.locale_, data)
    [] OTHER ->
         \A data \in ProbeTexts :
           TextTokens(rebuilt.config.options, rebuilt.config.stopwords, data)
             = TextTokens(tts.options, tts.stopwords, data)

\* C23: for each of the three analyzers and each of the two formats, the
\* analyzer that the constructor of a format returns for the definition an
\* analyzer wrote in that format emits, for every input, the tokens that the
\* first analyzer emits.
C23_RoundTripSameTokens ==
  (conf.stage \in {"made", "rewritten"} /\ conf.own /\ ~conf.rebuilt.null)
    => SameTokens(conf.rebuilt)


\* thread t is in make_json, called with a bare JSON string, and has the
\* options from which it builds the analyzer
BuildsFromString(t) ==
  /\ pc[t] \in {"build", "emplace"}
  /\ frame[t].format = "json"
  /\ IsString(ParseJson(frame[t].key))

\* C24: linguistic analyzer: make_json called with a bare JSON string of
\* value L builds its analyzer from options whose locale is L, the decoded
\* value, as it does for the object {"locale": L}.
C24_BareStringLocale ==
  \A t \in Threads :
    BuildsFromString(t) => frame[t].options.locale = ParseJson(frame[t].key).v


\* the byte positions, in the text handed to reset(), of a span of characters
ByteSpan(text, sp) ==
  <<Utf8Size(SubSeq(text, 1, sp[1])), Utf8Size(SubSeq(text, 1, sp[2]))>>

\* C25: linguistic analyzer: offset.start and offset.end of every token are
\* the byte positions, in the text handed to reset(), of the first byte of
\* a word and of the byte after its last, whatever the byte lengths of the
\* characters of the text.
C25_OffsetsAreBytePositions ==
  TextReady =>
    \A i \in 1..Len(emitted) :
      SpanOf(emitted[i]) \in {ByteSpan(input.tail, sp) : sp \in ContentSpans(input.tail)}


\* C26: for the three analyzers, the position increment attribute is 1 at
\* every moment, and so for every token emitted, whatever reset() and next()
\* calls were made and whatever spans the linguistic analyzer passed over.
C26_IncrementIsOne ==
  /\ dts.inc_ = 1 /\ tss.inc_ = 1 /\ tts.inc_ = 1
  /\ \A i \in 1..Len(emitted) : emitted[i].inc = 1
\* the linguistic analyzer has emitted the token of the third span of
\* "a A", after it passed over the stopword "a" and the space
C26_Witness ==
  /\ kind = "text"
  /\ input = Str(<<"a", SPACE, "A">>)
  /\ <<"a">> \in tts.stopwords
  /\ Len(emitted) = 1
  /\ emitted[1].start = Num(2)
  /\ emitted[1].inc = 1


(***************************************************************************)
(* arangodb::HashSet: the statements of the tests, in any order            *)
(***************************************************************************)
InitHashSet ==
  /\ kind = "text"
  /\ dts = delimited_ctor(NIL)
  /\ tss = stemming_ctor("en")
  /\ tts = NoStream
  /\ resets = 0
  /\ reset_ret = FALSE
  /\ emitted = <<>>
  /\ input = NIL
  /\ call = Returned("ctor", TRUE)
  /\ EmptyCache
  /\ env = NoEnv
  /\ conf = NoConf
  /\ sets = [stage |-> "tested", heap |-> [t \in Tables |-> {}],
             values |-> hs_ctor(1), copied |-> FALSE, copy |-> hs_ctor(1),
             ret |-> [op |-> "ctor", arg |-> 0, value |-> 0]]
  /\ bitsets = NoBitsets
NextHashSet ==
  HsInsert \/ HsEmplace \/ HsErase \/ HsClear \/ HsReserve \/ HsCopy \/ HsMove
SpecHashSet == InitHashSet /\ [][NextHashSet]_vars

\* the values a set contains
Contained(s, o) == {v \in HashValues : hs_find(s.heap, o, v)}

\* C27: HashSet: after every insert, emplace, erase, clear and reserve,
\* size() is the number of distinct values contained and empty() is true
\* exactly when size() is 0; an insert or emplace of a value that is present
\* leaves the size as it was, and emplace then reports second == false;
\* erase returns 1 and removes the value when it is present and returns 0
\* otherwise; reserve leaves the contents as they were.
C27_SizeCountsValues ==
  [][LET r == sets'.ret
         before == Contained(sets, sets.values)
         after == Contained(sets', sets'.values)
         size == hs_size(sets.values)
         size_ == hs_size(sets'.values)
     IN r.op \in {"insert", "emplace", "erase", "clear", "reserve"} =>
          /\ size_ = Cardinality(after)
          /\ hs_empty(sets'.values) <=> size_ = 0
          /\ r.op \in {"insert", "emplace"} =>
               /\ after = before \cup {r.arg}
               /\ r.arg \in before => size_ = size
          /\ r.op = "emplace" => (r.value = 0 <=> r.arg \in before)
          /\ r.op = "erase" =>
               /\ after = before \ {r.arg}
               /\ r.value = IF r.arg \in before THEN 1 ELSE 0
          /\ r.op = "clear" => after = {}
          /\ r.op = "reserve" => after = before /\ size_ = size]_vars
\* a value that the set holds with another has been emplaced again
C27_Witness ==
  /\ SetsTested
  /\ sets.ret.op = "emplace"
  /\ sets.ret.value = 0
  /\ hs_size(sets.values) = 2
  /\ sets.ret.arg \in Contained(sets, sets.values)

\* C28: HashSet: a copy contains the values of the original and does not
\* change when the original is changed afterwards, so that a clear() of the
\* original leaves the copy's size and membership as they were; a move
\* leaves the source empty and the destination with all the values.
C28_CopyIsIndependent ==
  [][LET r == sets'.ret
         values == Contained(sets, sets.values)
         values_ == Contained(sets', sets'.values)
         copy == Contained(sets, sets.copy)
         copy_ == Contained(sets', sets'.copy)
     IN /\ r.op = "copy" =>
             /\ copy_ = values /\ hs_size(sets'.copy) = hs_size(sets.values)
             /\ values_ = values /\ hs_size(sets'.values) = hs_size(sets.values)
        /\ r.op = "move" =>
             /\ copy_ = values /\ hs_size(sets'.copy) = hs_size(sets.values)
             /\ values_ = {} /\ hs_empty(sets'.values)
        /\ (sets.copied /\ r.op \in {"insert", "emplace", "erase", "clear", "reserve"}) =>
             copy_ = copy /\ hs_size(sets'.copy) = hs_size(sets.copy)]_vars
\* the original of a copy of two values has been cleared
C28_Witness ==
  /\ SetsTested
  /\ sets.copied
  /\ sets.ret.op = "clear"
  /\ hs_empty(sets.values)
  /\ hs_size(sets.copy) = 2
  /\ Cardinality(Contained(sets, sets.copy)) = 2
  /\ sets.copy.table # sets.values.table


(***************************************************************************)
(* The cache: which constructions read a stopword directory at a time      *)
(***************************************************************************)
NextScan ==
  \E t \in Threads :
    \/ Call(t) \/ Dispatch(t) \/ Lookup(t)
    \/ ScanStart(t) \/ ScanEnd(t) \/ BuildWithoutScan(t)
    \/ Emplace(t)
SpecScan == InitConstruct /\ [][NextScan]_vars

\* thread t is in get_stopwords
Scanning(t) == pc[t] = "scan"

\* C29: the stopword directory is read with the mutex of the cache held, so
\* that at no moment two constructions, of one key or of two, are reading a
\* stopword directory.
C29_OneScanAtATime ==
  \A t1, t2 \in Threads : (Scanning(t1) /\ Scanning(t2)) => t1 = t2


(***************************************************************************)
(* Stopwords given both as a list and as a path                            *)
(***************************************************************************)
\* the options name at least one stopword and carry a path override
ListAndPath(o) == o.explicit_stopwords # {} /\ PathOverride(o)

\* C30: an analyzer built from a non-empty explicit stopwords list and a
\* path override is cached with the union of the explicit words and the
\* words of <path>/<language>/ as its stopwords; the explicit words are
\* always among them.
C30_ListAndPathUnion ==
  \A e \in cached_state_by_key :
    ListAndPath(e.options)
      => LET dir == OverrideDirectory(e.options)
         IN /\ e.options.explicit_stopwords \subseteq e.stopwords_
            /\ e.stopwords_ = e.options.explicit_stopwords \cup WordsIn(dir[1], dir[2])
\* the analyzer of stopwords ["b"] and path "p" is cached with the word
\* "b" and the word "A" of the directory /p/en/
C30_Witness ==
  \E e \in cached_state_by_key :
    /\ e.key_ = CfgWordsPath
    /\ e.options.explicit_stopwords = {<<"b">>}
    /\ e.options.stopwordsPath = <<"p">>
    /\ e.stopwords_ = {<<"b">>, <<"A">>}
    /\ consulted = SetToBag({<<"path", <<"/", "p">>, "en">>})


(***************************************************************************)
(* Delimited analyzer: scanning, termination, exhaustion                   *)
(***************************************************************************)
\* the number of quote characters among the first i bytes of d
RECURSIVE QuotesBefore(_, _)
QuotesBefore(d, i) ==
  IF i = 0 THEN 0
  ELSE QuotesBefore(d, i - 1) + (IF d[i] = QUOTE THEN 1 ELSE 0)
\* the byte at position i (from 0) lies in a quoted span: after an opening
\* quote, up to and including the closing quote if there is one
InQuotes(d, i) == QuotesBefore(d, i) % 2 = 1
\* the delimiter occurs at position i (from 0) of d; the empty delimiter
\* does not occur at position 0
OccursAt(d, delim, i) ==
  /\ i + Len(delim) <= Len(d)
  /\ \A j \in 1..Len(delim) : d[i + j] = delim[j]
  /\ (i # 0 \/ Len(delim) # 0)
\* where the token that starts d ends: at the first occurrence of the
\* delimiter outside quotes, else at the end of d
TokenEnd(d, delim) ==
  LET ends == {i \in 0..(Len(d) - 1) : ~InQuotes(d, i) /\ OccursAt(d, delim, i)}
  IN IF ends = {} THEN Len(d)
     ELSE CHOOSE i \in ends : \A j \in ends : i <= j

\* C31: a next() that returns true, with a delimiter configured, ends its
\* token at the first occurrence of the delimiter that does not lie in a
\* quoted span (the empty delimiter not occurring at position 0), and at the
\* end of the input if there is none: an occurrence between an opening quote
\* and its closing quote ends no token, after a quote that is never closed
\* the rest of the input is one token, and a delimiter that starts with a
\* quote is matched where a quoted span could open.
C31_QuoteAwareScan ==
  [][(kind = "delimited" /\ call'.op = "next" /\ call'.ret
        /\ ~dts.delim_.null /\ dts.data_.pad = Num(0))
       => LET d == dts.data_.tail
              delim == dts.delim_.tail
              n == Len(dts'.payload_.tail)
          IN /\ dts'.payload_.pad = Num(0)
             /\ n = TokenEnd(d, delim)
             /\ n < Len(d) => (~InQuotes(d, n) /\ OccursAt(d, delim, n))
             /\ (\E q \in 0..(Len(d) - 1) :
                   /\ d[q + 1] = QUOTE /\ ~InQuotes(d, q)
                   /\ TokenEnd(SubSeq(d, 1, q), delim) = q
                   /\ ~OccursAt(d, delim, q)
                   /\ \A k \in (q + 2)..Len(d) : d[k] # QUOTE) => n = Len(d)
             /\ (d # <<>> /\ d[1] = QUOTE /\ OccursAt(d, delim, 0)) => n = 0]_vars
\* the input "," , with the comma as delimiter: the comma between the quotes
\* did not end the first token, the comma after the closing quote did
C31_Witness ==
  /\ kind = "delimited" /\ dts.delim_ = Str(<<",">>)
  /\ input = Str(<<QUOTE, ",", QUOTE, ",">>)
  /\ Len(emitted) = 1
  /\ emitted[1].payload = Str(<<QUOTE, ",", QUOTE>>)
\* with the delimiter ", (quote, comma) the input ",a gave an empty first
\* token: the quote was taken as the start of the delimiter
C31_WitnessDelimiterWins ==
  /\ kind = "delimited" /\ dts.delim_ = Str(<<QUOTE, ",">>)
  /\ input = Str(<<QUOTE, ",", "a">>)
  /\ Len(emitted) = 1
  /\ emitted[1].payload = Str(<<>>)
\* the input a,"a, with the comma as delimiter: the second token is "a,
\* whose quote is never closed
C31_WitnessUnclosed ==
  /\ kind = "delimited" /\ dts.delim_ = Str(<<",">>)
  /\ input = Str(<<"a", ",", QUOTE, ",">>)
  /\ Len(emitted) = 2
  /\ emitted[2].payload = Str(<<QUOTE, ",">>)


\* the bytes next() has still to scan, plus one while there is a suffix
Unscanned(s) == IF s.data_.null THEN Num(0) ELSE Add(Size(s.data_), Num(1))

\* C32: a next() of the delimited analyzer that returns true leaves either
\* no unscanned suffix or a suffix of the former one that is at least one
\* byte shorter and starts inside it, for every delimiter; so every true
\* next() lowers the count of what is left to scan, at most n + 1 tokens are
\* emitted after a reset() on n bytes, and the call made after n + 1 tokens
\* returns false.
C32_NextTerminates ==
  [][(kind = "delimited" /\ call'.op = "next")
       => /\ call'.ret
               => /\ \/ dts'.data_.null
                     \/ LET k == Sub(Size(dts.data_), Size(dts'.data_))
                        IN /\ Lt(Num(0), k) /\ Le(k, Size(dts.data_))
                           /\ k = next_position(
                                    find_delimiter(dts.data_, dts.delim_),
                                    dts.delim_)
                           /\ dts'.data_ = Suffix(dts.data_, k)
                  /\ Lt(Unscanned(dts'), Unscanned(dts))
                  /\ Le(Num(Len(emitted')), Add(Size(input), Num(1)))
          /\ Num(Len(emitted)) = Add(Size(input), Num(1)) => ~call'.ret]_vars
\* four delimiters in a row gave five tokens, the first found at position
\* 0, and then false
C32_Witness ==
  /\ kind = "delimited" /\ dts.delim_ = Str(<<",">>)
  /\ input = Str(<<",", ",", ",", ",">>)
  /\ Len(emitted) = 5
  /\ StreamEnded
\* the empty delimiter gave one token per byte, and then false
C32_WitnessEmptyDelimiter ==
  /\ kind = "delimited" /\ dts.delim_ = Str(<<>>)
  /\ Size(input) = Num(MaxLen)
  /\ Len(emitted) = MaxLen
  /\ StreamEnded


\* the unscanned suffix is there and holds no byte
EmptySuffix(s) == ~s.data_.null /\ Size(s.data_) = Num(0)

\* C33 as claimed: next() of the delimited analyzer returns false whenever
\* the unscanned suffix is absent or holds no byte
C33_FalseOnEmptyOrAbsent ==
  [][(kind = "delimited" /\ call'.op = "next"
        /\ (dts.data_.null \/ EmptySuffix(dts)))
       => ~call'.ret]_vars

\* C33 amended: next() returns false whenever the unscanned suffix is
\* absent, which it is before any reset(), after reset() on a null input and
\* after the token that took all the bytes left; on a suffix that is there
\* and holds no byte (reset() on an empty input that is not null, or an
\* input that ends with the delimiter) next() returns true once, with an
\* empty token, as long as the offsets fit 32 bits, and leaves no suffix.
C33_FalseOnAbsent ==
  [][(kind = "delimited" /\ call'.op = "next")
       => /\ dts.data_.null => (~call'.ret /\ dts' = dts)
          /\ (call'.ret /\ Size(dts'.payload_) = Size(dts.data_))
               => dts'.data_.null
          /\ (EmptySuffix(dts) /\ InRange32(input))
               => /\ call'.ret
                  /\ Size(dts'.payload_) = Num(0)
                  /\ dts'.data_.null]_vars
\* reset() on the empty input that is not null gave one empty token, and
\* then false
C33_Witness ==
  /\ kind = "delimited" /\ input = Str(<<>>)
  /\ Len(emitted) = 1 /\ emitted[1].payload = Str(<<>>)
  /\ StreamEnded /\ dts.data_.null
\* reset() on the null input gave no token
C33_WitnessNull ==
  /\ kind = "delimited" /\ resets = 1 /\ input = NIL
  /\ emitted = <<>> /\ StreamEnded


(***************************************************************************)
(* Stemming-only and linguistic analyzers: resources built by reset()      *)
(***************************************************************************)
\* the locale of the analyzer has a stemmer algorithm
HasAlgorithm ==
  IF kind = "stem" THEN sb_stemmer_new(tss.locale_)
  ELSE sb_stemmer_new(language(tts.options.locale))

\* C34: a reset() does not ask again for a resource that an earlier reset()
\* on the instance built (normalizer, transliterator, segmenter, stemmer),
\* nor for the stemmer once an earlier reset() has asked for it, whether or
\* not the locale has a stemmer algorithm.
C34_BuiltOnce ==
  [][/\ kind = "stem"
          => (tss.sb_stemmer_new_calls >= 1
                => tss'.sb_stemmer_new_calls = tss.sb_stemmer_new_calls)
     /\ (kind = "text" /\ tts.live)
          => /\ tts.normalizer
                  => tts'.created.normalizer = tts.created.normalizer
             /\ tts.transliterator
                  => tts'.created.transliterator = tts.created.transliterator
             /\ tts.break_iterator
                  => tts'.created.break_iterator = tts.created.break_iterator
             /\ tts.created.stemmer >= 1
                  => tts'.created.stemmer = tts.created.stemmer]_vars


(***************************************************************************)
(* The cache: one key for both formats                                     *)
(***************************************************************************)
\* the options a configuration string stands for in a format: in the text
\* format the locale is the string and all else is default, in the JSON
\* format they are the options read from the object
OptionsOf(format, args) ==
  IF format = "text" THEN [default_options EXCEPT !.locale = args]
  ELSE json_dispatch(args).options
\* the call of thread t returns an analyzer in this step
Returns(t) == pc[t] # "idle" /\ pc'[t] = "idle" /\ ~result'[t].null

\* C35: the analyzer a call of make_text or of make_json with a JSON object
\* returns has the options its configuration string stands for in the format
\* of the call, whatever was constructed from the same string before.
C35_OptionsOfTheFormatCalled ==
  [][\A t \in Threads :
       (Returns(t) /\ (frame[t].format = "json"
                         => json_dispatch(frame[t].key).to = "build"))
         => \A e \in cached_state_by_key' :
              e.id = result'[t].entry
                => e.options = OptionsOf(frame[t].format, frame[t].key)]_vars


(***************************************************************************)
(* Delimited and stemming-only analyzers: a reset() starts afresh          *)
(***************************************************************************)
\* the tokens a newly constructed analyzer of the same configuration emits
\* for the input of the last reset()
FreshTokens ==
  IF kind = "delimited" THEN DelimitedTokens(dts.delim_, input)
  ELSE StemmingTokens(tss.locale_, input)

\* C36: the tokens (term, payload, offsets, increment) the delimited and the
\* stemming-only analyzer have emitted since the last reset(x) are the first
\* tokens a newly constructed analyzer of the same configuration emits for
\* x, and all of them once next() has returned false, whatever was reset and
\* read on the instance before.
C36_TokensDependOnInputOnly ==
  (kind \in {"delimited", "stem"} /\ resets >= 1)
    => /\ Len(emitted) <= Len(FreshTokens)
       /\ emitted = SubSeq(FreshTokens, 1, Len(emitted))
       /\ StreamEnded => emitted = FreshTokens
\* after a first stream, the second reset() of the delimited analyzer has
\* given its tokens
C36_Witness ==
  /\ kind = "delimited" /\ resets = 2
  /\ dts.delim_ = Str(<<",">>) /\ input = Str(<<",">>)
  /\ Len(emitted) = 2 /\ emitted[2].start = Num(1)
  /\ StreamEnded
\* the same for the stemming-only analyzer
C36_WitnessStem ==
  /\ kind = "stem" /\ resets = 2 /\ Len(emitted) = 1 /\ StreamEnded


(***************************************************************************)
(* All analyzers: next() before any reset() has succeeded                  *)
(***************************************************************************)
\* no reset() of the analyzer has returned true yet
NeverReset == resets = 0 \/ (resets = 1 /\ ~reset_ret)

\* C37: on an analyzer of any of the three kinds on which no reset() has
\* returned true yet, a next() returns false and its behaviour is defined:
\* it uses no resource that has not been built.
C37_NextBeforeReset ==
  (NeverReset /\ call.op = "next") => (~call.ret /\ ~call.ub)


(***************************************************************************)
(* irs::dynamic_bitset (utils/bitset.hpp).  A bitset is its three members: *)
(* bits_, words_ and the words array data_, which is `alloc` words long    *)
(* (0 words: data_ is null) and whose contents are the set `data` of the   *)
(* bit offsets that are one.  Byte k of the array holds the bit offsets    *)
(* 8k .. 8k+7 (the byte order of the platforms the library is built for).  *)
(***************************************************************************)
\* bits_required<word_t>() and sizeof(word_t), word_t being size_t
BitsPerWord == 64
WordBytes == 8
\* the sizes given to reset(bits), the offsets given to set/unset/test
BitsetSizes == {0, 8, 9, 65}
BitsetOffsets == {0, 8, 64}
\* the buffers given to memset(src, size): a size in bytes and the offsets
\* of the bits that are one
BitsetSources ==
  {[size |-> 1, bits |-> 0 .. 7], [size |-> 8, bits |-> {1, 8, 63}],
   [size |-> 16, bits |-> 0 .. 127]}

bit(i) == i % BitsPerWord
word(i) == i \div BitsPerWord
bit_offset(i) == i * BitsPerWord
bit_to_words(bits) ==
  bits \div BitsPerWord + (IF 0 = bits % BitsPerWord THEN 0 ELSE 1)
\* dynamic_bitset(alloc): no bits, no words, data_ null
bitset_ctor == [bits_ |-> 0, words_ |-> 0, alloc |-> 0, data |-> {}]
bitset_size(s) == s.bits_
bitset_words(s) == s.words_
bitset_capacity(s) == BitsPerWord * s.words_
\* the offsets of the bits, of the words in use, that are one
bitset_ones(s) == {i \in s.data : word(i) < s.words_}
\* clear(): zeroes the words in use, when there is an array
bitset_clear(s) ==
  IF s.alloc = 0 THEN s
  ELSE [s EXCEPT !.data = {i \in s.data : i >= WordBytes * s.words_ * 8}]
\* reset(bits): a new array only when more words are needed than are in use
bitset_reset(s, bits) ==
  LET words == bit_to_words(bits)
      grown == IF words > s.words_
                 THEN [s EXCEPT !.alloc = words, !.data = {}]
               ELSE s
  IN bitset_clear([grown EXCEPT !.words_ = words, !.bits_ = bits])
\* sanitize() that leaves the last word as it is
sanitize_nothing(s) == s
\* sanitize(): the bits of the last word at and above bits_ are zeroed
sanitize(s) ==
  LET last_word_bits == s.bits_ % BitsPerWord
  IN IF last_word_bits = 0 THEN s
     ELSE [s EXCEPT !.data = {i \in s.data :
                                 word(i) = s.words_ - 1 => bit(i) < last_word_bits}]
\* memset(src, size): the first min(size, words() * sizeof(word_t)) bytes of
\* the array become those of src, then sanitize()
bitset_memset(s, src) ==
  LET avail == bitset_words(s) * WordBytes
      n == IF src.size < avail THEN src.size ELSE avail
  IN sanitize([s EXCEPT !.data = {i \in s.data : i >= 8 * n}
                                 \cup {i \in src.bits : i < 8 * n}])
\* set(i), unset(i), reset(i, set), test(i)
bitset_set(s, i) == [s EXCEPT !.data = @ \cup {bit_offset(word(i)) + bit(i)}]
bitset_unset(s, i) == [s EXCEPT !.data = @ \ {bit_offset(word(i)) + bit(i)}]
bitset_reset_bit(s, i, set) == IF set THEN bitset_set(s, i) ELSE bitset_unset(s, i)
bitset_test(s, i) == bit_offset(word(i)) + bit(i) \in s.data
\* count(): the ones of the words in use; any(), none(), all()
bitset_count(s) == Cardinality(bitset_ones(s))
bitset_any(s) == bitset_ones(s) # {}
bitset_none(s) == ~bitset_any(s)
bitset_all(s) == bitset_count(s) = bitset_size(s)
\* operator==: memcmp of size() bytes of the two arrays.  A byte beyond an
\* array is not the bitset's to read: `ub` says that one was read
bitset_eq(l, r) ==
  IF bitset_size(l) # bitset_size(r) THEN [eq |-> {FALSE}, ub |-> FALSE]
  ELSE LET n == bitset_size(l)
           same == \A i \in 0 .. 8 * n - 1 : (i \in l.data) = (i \in r.data)
       IN IF n > WordBytes * l.alloc \/ n > WordBytes * r.alloc
            THEN [eq |-> BOOLEAN, ub |-> TRUE]
          ELSE [eq |-> {same}, ub |-> FALSE]

\* the two bitsets of a comparison
BitsetSides == {"lhs", "rhs"}
\* an operation has changed bitset `x` and returned
BitsetDone(x, s, op) ==
  /\ bitsets' = [bitsets EXCEPT ![x] = s,
                                !.ret = [op |-> op, on |-> x, eq |-> FALSE, ub |-> FALSE]]
  /\ UNCHANGED <<cached_state_by_key, pc, frame, result, analyzers, loads, calls,
                 env, consulted, conf, sets>>
  /\ UNCHANGED <<kind, dts, tss, tts, resets, reset_ret, emitted, input, call>>
BitsetsUsed == bitsets.stage = "used"
BitsetReset ==
  /\ BitsetsUsed
  /\ \E x \in BitsetSides, bits \in BitsetSizes :
       BitsetDone(x, bitset_reset(bitsets[x], bits), "reset")
BitsetClear ==
  /\ BitsetsUsed
  /\ \E x \in BitsetSides : BitsetDone(x, bitset_clear(bitsets[x]), "clear")
BitsetMemset ==
  /\ BitsetsUsed
  /\ \E x \in BitsetSides, src \in BitsetSources :
       BitsetDone(x, bitset_memset(bitsets[x], src), "memset")
BitsetSet ==
  /\ BitsetsUsed
  /\ \E x \in BitsetSides, i \in BitsetOffsets :
       /\ i < bitset_size(bitsets[x])
       /\ BitsetDone(x, bitset_set(bitsets[x], i), "set")
BitsetUnset ==
  /\ BitsetsUsed
  /\ \E x \in BitsetSides, i \in BitsetOffsets :
       /\ i < bitset_size(bitsets[x])
       /\ BitsetDone(x, bitset_unset(bitsets[x], i), "unset")
BitsetResetBit ==
  /\ BitsetsUsed
  /\ \E x \in BitsetSides, i \in BitsetOffsets, set \in BOOLEAN :
       /\ i < bitset_size(bitsets[x])
       /\ BitsetDone(x, bitset_reset_bit(bitsets[x], i, set), "reset_bit")
BitsetEq ==
  /\ BitsetsUsed
  /\ LET r == bitset_eq(bitsets.lhs, bitsets.rhs)
     IN \E eq \in r.eq :
          bitsets' = [bitsets EXCEPT !.ret = [op |-> "eq", on |-> "lhs",
                                              eq |-> eq, ub |-> r.ub]]
  /\ UNCHANGED <<cached_state_by_key, pc, frame, result, analyzers, loads, calls,
                 env, consulted, conf, sets>>
  /\ UNCHANGED <<kind, dts, tss, tts, resets, reset_ret, emitted, input, call>>

InitBitset ==
  /\ kind = "text"
  /\ dts = delimited_ctor(NIL)
  /\ tss = stemming_ctor("en")
  /\ tts = NoStream
  /\ resets = 0
  /\ reset_ret = FALSE
  /\ emitted = <<>>
  /\ input = NIL
  /\ call = Returned("ctor", TRUE)
  /\ EmptyCache
  /\ env = NoEnv
  /\ conf = NoConf
  /\ sets = NoSets
  /\ bitsets = [stage |-> "used", lhs |-> bitset_ctor, rhs |-> bitset_ctor,
                ret |-> [op |-> "ctor", on |-> "lhs", eq |-> FALSE, ub |-> FALSE]]
NextBitset ==
  \/ BitsetReset \/ BitsetClear \/ BitsetMemset
  \/ BitsetSet \/ BitsetUnset \/ BitsetResetBit \/ BitsetEq
SpecBitset == InitBitset /\ [][NextBitset]_vars

\* the operations the claims on the bitsets are about have acted on `x`
BitsetActed(x) == BitsetsUsed /\ bitsets.ret.op # "ctor" /\ bitsets.ret.on = x
\* the indices below size() that test() finds set
SetIndices(s) == {i \in 0 .. bitset_size(s) - 1 : bitset_test(s, i)}

\* C38: operator== returns true exactly when the two bitsets have the same
\* size() and the same bits set, and reads no byte beyond the
\* words_ * sizeof(word_t) bytes each bitset owns, whatever the size in bits
C38_EqualIffSameBits ==
  (BitsetsUsed /\ bitsets.ret.op = "eq") =>
    /\ ~bitsets.ret.ub
    /\ bitsets.ret.eq = (/\ bitset_size(bitsets.lhs) = bitset_size(bitsets.rhs)
                         /\ SetIndices(bitsets.lhs) = SetIndices(bitsets.rhs))

\* C39: after any sequence of reset(bits), clear(), memset(src, size) and
\* set/unset/reset(i, b) with i < size(): words() is size() divided by the
\* bits of a word, rounded up; no bit at or above size() is set in the words
\* in use; count() is the number of set indices below size(); and right
\* after reset(bits) every bit is clear
C39_BitsetInvariants ==
  \A x \in BitsetSides :
    BitsetActed(x) =>
      LET s == bitsets[x]
      IN /\ bitset_words(s) * BitsPerWord >= bitset_size(s)
         /\ (bitset_words(s) - 1) * BitsPerWord < bitset_size(s)
              \/ (bitset_words(s) = 0 /\ bitset_size(s) = 0)
         /\ \A i \in bitset_ones(s) : i < bitset_size(s)
         /\ bitset_count(s) = Cardinality(SetIndices(s))
         /\ bitset_words(s) <= s.alloc
         /\ bitsets.ret.op = "reset" =>
              (bitset_count(s) = 0 /\ bitset_none(s) /\ SetIndices(s) = {})
\* memset has copied a buffer of ones over a bitset of 9 bits, the 9 bits
\* are set and no other
C39_Witness ==
  /\ BitsetActed("lhs")
  /\ bitsets.ret.op = "memset"
  /\ bitset_size(bitsets.lhs) = 9
  /\ bitset_count(bitsets.lhs) = 9
  /\ bitsets.lhs.alloc = 2

\* C38, without the reads beyond the arrays: the bytes compared are still
\* not the bits of the two bitsets (a word left by a larger size is compared)
C38_EqualIffSameBitsWithinArrays ==
  (BitsetsUsed /\ bitsets.ret.op = "eq" /\ ~bitsets.ret.ub) =>
    bitsets.ret.eq = (/\ bitset_size(bitsets.lhs) = bitset_size(bitsets.rhs)
                      /\ SetIndices(bitsets.lhs) = SetIndices(bitsets.rhs))

============================================================================
